---- MODULE Spec2Model ----
(***************************************************************************)
(* Provisioning / tear-down orchestration of the "twin" stack:            *)
(*   scripts/deploy.sh, scripts/destroy.sh, the deploy/destroy workflows, *)
(*   terraform/main.tf and terraform/backend.tf, driving Terraform's      *)
(*   build / lock / diff / execute / persist / unlock cycle per           *)
(*   environment (workspace).                                              *)
(***************************************************************************)
EXTENDS Integers, Sequences, FiniteSets, TLC

(***************************************************************************)
(* Names taken from the source                                             *)
(***************************************************************************)
\* environments a run may name (workflow choice options)
Envs == {"dev", "prod"}

\* concurrently active invocations (operators / pipeline jobs)
MaxRuns == 2

\* polls of a provider action before the wait gives up
MaxPolls == 2

\* user messages of one conversation
MaxTurns == 3

Runs == 1..MaxRuns

\* two operators, or an operator and a workflow runner
Pair == {1, 2}

\* faulty variant: the backend block without locking
NoLockfile == FALSE

\* backend "s3": use_lockfile = true (the scripts pass dynamodb_table to the
\* same end): terraform takes the state lock around apply and destroy
UseLockfile == TRUE

\* value typed into the confirmation field; "" = nothing typed
ConfirmValues == Envs \cup {""}

\* resources of terraform/main.tf, in declaration order
MainOrder == <<"memory", "frontend", "api", "cloudfront", "site", "alias_root">>

Universe == {MainOrder[i] : i \in 1..Len(MainOrder)}

\* the buckets scripts/destroy.sh empties: FRONTEND_BUCKET, MEMORY_BUCKET
Buckets == {"frontend", "memory"}

\* faulty variant: the distribution names the certificate whatever the toggle
MainRefsUncond(n, t) ==
    CASE n = "api"        -> {"memory"} \cup (IF t THEN {} ELSE {"cloudfront"})
      [] n = "cloudfront" -> {"frontend", "site"}
      [] n = "alias_root" -> {"cloudfront"}
      [] OTHER            -> {}

\* attribute references of each resource once the overlay's toggle
\* (use_custom_domain) has been substituted
MainRefs(n, t) ==
    CASE n = "api"        -> {"memory"} \cup (IF t THEN {} ELSE {"cloudfront"})
      [] n = "cloudfront" -> {"frontend"} \cup (IF t THEN {"site"} ELSE {})
      [] n = "alias_root" -> {"cloudfront"}
      [] OTHER            -> {}

\* faulty variant: the function without its depends_on
MainDepsNone(n) == {}

\* faulty variant: depends_on naming the bucket instead of the distribution
MainDepsBucket(n) == IF n = "api" THEN {"memory"} ELSE {}

\* depends_on lists
MainDeps(n) == IF n = "api" THEN {"cloudfront"} ELSE {}

\* resources with count = var.use_custom_domain ? 1 : 0
MainCond == {"site", "alias_root"}

\* the declared resource set of terraform/main.tf
MainTf ==
    [order |-> MainOrder,
     refs  |-> [n \in Universe |-> [t \in BOOLEAN |-> MainRefs(n, t)]],
     deps  |-> [n \in Universe |-> MainDeps(n)],
     cond  |-> MainCond]

Absent == "absent"

\* attribute value a resource is configured with under the toggle: the
\* function's CORS_ORIGINS and the distribution's aliases / certificate
\* depend on use_custom_domain
Desired(n, t) == IF n \in {"api", "cloudfront"} /\ t THEN "custom" ELSE "default"

(***************************************************************************)
(* Resource Graph Builder                                                  *)
(***************************************************************************)
Names(d) == {d.order[i] : i \in 1..Len(d.order)}

\* nodes whose enabling condition holds for the overlay
Present(d, t) == {n \in Names(d) : n \notin d.cond \/ t}

\* edge set: attribute references united with explicit dependencies
Producers(d, t, n) == d.refs[n][t] \cup d.deps[n]

RECURSIVE Anc(_, _, _, _)
Anc(d, t, S, k) ==
    IF k = 0 THEN S
    ELSE Anc(d, t, S \cup UNION {Producers(d, t, m) : m \in S}, k - 1)

\* every producer n depends on, directly or transitively
Ancestors(d, t, n) == Anc(d, t, Producers(d, t, n), Len(d.order))

Unresolved(d, t) ==
    \E n \in Present(d, t) : \E p \in Producers(d, t, n) : p \notin Present(d, t)

HasCycle(d, t) == \E n \in Present(d, t) : n \in Ancestors(d, t, n)

\* Build(declared_resources, overlay) -> ResourceGraph | BuildError
Build(d, t) ==
    IF Unresolved(d, t) THEN [status |-> "UnresolvedReferenceError", nodes |-> {}]
    ELSE IF HasCycle(d, t) THEN [status |-> "CycleError", nodes |-> {}]
    ELSE [status |-> "ok", nodes |-> Present(d, t)]

\* faulty variant: of the nodes that are ready, the one declared last
FirstReadyLast(d, t, S, done, i) ==
    LET ready == {j \in 1..Len(d.order) :
                     d.order[j] \in S /\ (Producers(d, t, d.order[j]) \cap S) \subseteq done}
    IN  IF ready = {} THEN Absent
        ELSE d.order[CHOOSE j \in ready : \A k \in ready : k <= j]

\* first node, in declaration order, of S all of whose producers are done
RECURSIVE FirstReady(_, _, _, _, _)
FirstReady(d, t, S, done, i) ==
    IF i > Len(d.order) THEN Absent
    ELSE IF d.order[i] \in S /\ (Producers(d, t, d.order[i]) \cap S) \subseteq done
         THEN d.order[i]
         ELSE FirstReady(d, t, S, done, i + 1)

RECURSIVE Topo(_, _, _, _)
Topo(d, t, S, acc) ==
    LET done == {acc[i] : i \in 1..Len(acc)}
        n    == FirstReady(d, t, S \ done, done, 1)
    IN  IF S \subseteq done \/ n = Absent THEN acc
        ELSE Topo(d, t, S, Append(acc, n))

\* producers before consumers, ties broken by declaration order
ApplyOrder(d, t, S) == Topo(d, t, S, <<>>)

Reverse(s) == [i \in 1..Len(s) |-> s[Len(s) + 1 - i]]

\* consumers before producers
DestroyOrder(d, t, S) == Reverse(ApplyOrder(d, t, S))

(***************************************************************************)
(* Diffing                                                                  *)
(***************************************************************************)
Recorded(rec) == {n \in DOMAIN rec : rec[n] # Absent}

\* faulty variant: a recorded instance is always taken to have drifted
ClassifyStale(rec, n, t) == IF rec[n] = Absent THEN "create" ELSE "update"

\* faulty variant: nothing is ever found to be missing
ClassifyNothing(rec, n, t) == "unchanged"

Classify(rec, n, t) ==
    IF rec[n] = Absent THEN "create"
    ELSE IF rec[n] # Desired(n, t) THEN "update"
    ELSE "unchanged"

RECURSIVE ApplySteps(_, _, _, _)
ApplySteps(rec, t, ord, i) ==
    IF i > Len(ord) THEN <<>>
    ELSE LET k == Classify(rec, ord[i], t)
         IN  (IF k = "unchanged" THEN <<>> ELSE <<[kind |-> k, node |-> ord[i]]>>)
             \o ApplySteps(rec, t, ord, i + 1)

DeleteSteps(ord) == [i \in 1..Len(ord) |-> [kind |-> "delete", node |-> ord[i]]]

\* faulty variant: an apply leaves alone the recorded instances that the
\* graph no longer holds
PlanKeepsOrphans(mode, d, t, nodes, rec) ==
    IF mode = "deploy"
    THEN ApplySteps(rec, t, ApplyOrder(d, t, nodes), 1)
    ELSE DeleteSteps(DestroyOrder(d, t, Recorded(rec)))

\* the actions a run will issue, in order: apply creates / updates the
\* graph's nodes and then removes recorded instances the graph no longer
\* holds; destroy removes every recorded instance
Plan(mode, d, t, nodes, rec) ==
    IF mode = "deploy"
    THEN ApplySteps(rec, t, ApplyOrder(d, t, nodes), 1)
         \o DeleteSteps(DestroyOrder(d, TRUE, Recorded(rec) \ nodes))
    ELSE DeleteSteps(DestroyOrder(d, t, Recorded(rec)))

\* the record a successful apply leaves
DesiredRecord(d, t, nodes) ==
    [n \in Universe |-> IF n \in nodes THEN Desired(n, t) ELSE Absent]

(***************************************************************************)
(* State                                                                    *)
(***************************************************************************)
VARIABLES
    decl,        \* the declared resource set the runs are given
    tfvars,      \* use_custom_domain as set in each variable file
    workspaces,  \* terraform workspace list
    lock,        \* per environment: the runs that hold the state lock
    state,       \* per environment: StateRecord, node -> recorded attributes
    cloud,       \* per environment: the resources that exist at the provider
    objects,     \* per environment: the buckets that hold objects
    hist,        \* per environment: "destroyed" while the record is as a
                 \* completed destroy left it, "live" otherwise
    run,         \* per invocation: its inputs, position and what it has issued
    boot,        \* the shared backend: state bucket, its hardening, lock
                 \* table, terraform/backend.hcl
    bs,          \* per bootstrap invocation: its position and the calls made
    store,       \* state objects in the state bucket: path, environment, configurer
    account,     \* externally visible names of the resources that exist
    chat         \* the chat component of the frontend: its React state, what
                 \* the last render showed, the requests in flight

vars == <<decl, tfvars, workspaces, lock, state, cloud, objects, hist, run,
          boot, bs, store, account, chat>>

NoStep == [kind |-> "none", node |-> Absent]

\* twin.tsx as mounted: useState([]), useState(''), useState(false),
\* useState('')
IdleChat ==
    [messages |-> <<>>, input |-> "", isLoading |-> FALSE, sessionId |-> "",
     view |-> [input |-> "", isLoading |-> FALSE, sessionId |-> ""],
     calls |-> {}]

EmptyRecord == [n \in Universe |-> Absent]

IdleRun ==
    [pc |-> "idle", env |-> "dev", mode |-> "deploy", trigger |-> "local",
     branch |-> "", confirm |-> "", creds |-> FALSE, emptied |-> {},
     ws |-> "default", listed |-> {}, shell |-> "sh", zip |-> TRUE,
     origin |-> "built",
     nodes |-> {}, prior |-> EmptyRecord,
     priorHist |-> "live", plan |-> <<>>, cur |-> NoStep, issued |-> <<>>,
     flight |-> {}, acted |-> {}, settled |-> {}, polls |-> 0, cancel |-> FALSE,
     err |-> "none"]

\* the account before scripts/bootstrap-terraform-backend.sh has run
NoBackend ==
    [bucket |-> FALSE, versioning |-> FALSE, encryption |-> FALSE,
     publicBlock |-> FALSE, table |-> FALSE, hcl |-> "none"]

\* STATE_KEY of the bootstrap script
BootstrapKey == "terraform.tfstate"

\* the account after a bootstrap that met no refusal
Bootstrapped ==
    [bucket |-> TRUE, versioning |-> TRUE, encryption |-> TRUE,
     publicBlock |-> TRUE, table |-> TRUE, hcl |-> BootstrapKey]

IdleBootstrap ==
    [pc |-> "idle", region |-> "us-east-1", seen |-> NoBackend, found |-> FALSE,
     calls |-> {}, warned |-> FALSE, err |-> "none"]

\* key given to terraform init: the bootstrap script writes STATE_KEY to
\* backend.hcl, deploy.sh and destroy.sh pass key=${ENVIRONMENT}/terraform.tfstate
BackendKey(cfg, e) ==
    IF cfg = "bootstrap" THEN BootstrapKey ELSE e \o "/" \o "terraform.tfstate"

\* faulty variant: the backend stores every workspace under the bare key
WorkspacePathNone(ws, key) == key

\* the s3 backend prefixes the key with env:/<workspace>/ for every
\* workspace but "default"
WorkspacePath(ws, key) == IF ws = "default" THEN key ELSE "env:/" \o ws \o "/" \o key

\* faulty variant: every environment is stored under the bootstrap key of
\* the default workspace
StatePathShared(cfg, e) == BootstrapKey

\* where the StateRecord of environment e is stored: the scripts select
\* the workspace named after the environment
StatePath(cfg, e) == WorkspacePath(e, BackendKey(cfg, e))

\* use_lockfile: the lock of a StateRecord is the object <state path>.tflock
LockId(e) == StatePath("deploy", e) \o ".tflock"

\* the environments whose lock is the same object as that of e
SameLock(e) == {f \in Envs : LockId(f) = LockId(e)}

\* PROJECT_NAME default of the scripts
ProjectName == "twin"

\* root_domain of prod.tfvars
RootDomain == "yourdomain.com"

\* faulty variant: a prefix without the environment
NamePrefixProject(e) == ProjectName

\* locals.name_prefix
NamePrefix(e) == ProjectName \o "-" \o e

\* externally visible name of a resource: the certificate and the DNS
\* records are named after root_domain, everything else after name_prefix
ResourceName(e, n) ==
    IF n \in MainCond THEN RootDomain \o "/" \o n ELSE NamePrefix(e) \o "-" \o n

\* use_custom_domain = false in terraform.tfvars, true in prod.tfvars
TfvarsFiles == [default |-> FALSE, prod |-> TRUE]

\* deploy.sh / destroy.sh pass -var-file=prod.tfvars for prod only
Overlay(e) == IF e = "prod" THEN tfvars.prod ELSE tfvars.default

Init ==
    /\ decl = MainTf
    /\ tfvars = TfvarsFiles
    /\ workspaces = {}
    /\ lock = [e \in Envs |-> {}]
    /\ state = [e \in Envs |-> EmptyRecord]
    /\ cloud = [e \in Envs |-> {}]
    /\ objects = [e \in Envs |-> {}]
    /\ hist = [e \in Envs |-> "live"]
    /\ run = [r \in Runs |-> IdleRun]
    /\ boot = Bootstrapped
    /\ bs = [b \in Runs |-> IdleBootstrap]
    /\ store = {}
    /\ account = {}
    /\ chat = IdleChat

(***************************************************************************)
(* Deployment Controller: workflows and scripts                            *)
(***************************************************************************)
\* An operator runs scripts/deploy.sh or scripts/destroy.sh, or a workflow
\* job starts; a destroy workflow carries the confirmation input.
Start(r, e, m, tr, c) ==
    /\ run[r].pc = "idle"
    /\ \A q \in Runs : q < r => run[q].pc # "idle"
    /\ (m = "destroy" /\ tr = "pipeline") \/ c = ""
    /\ run' = [run EXCEPT ![r] =
                 [IdleRun EXCEPT !.env = e, !.mode = m, !.trigger = tr,
                                 !.confirm = c,
                                 !.pc = IF tr = "pipeline"
                                        THEN (IF m = "destroy" THEN "verify" ELSE "creds")
                                        ELSE "script"]]
    /\ UNCHANGED <<chat, boot, bs, store, account, decl, tfvars, workspaces, lock, state, cloud, objects, hist>>

\* destroy.yml, step "Verify confirmation"
VerifyConfirmation(r) ==
    /\ run[r].pc = "verify"
    /\ run' = [run EXCEPT ![r] =
                 IF run[r].confirm # run[r].env
                 THEN [@ EXCEPT !.pc = "failed", !.err = "ConfirmationMismatchError"]
                 ELSE [@ EXCEPT !.pc = "creds"]]
    /\ UNCHANGED <<chat, boot, bs, store, account, decl, tfvars, workspaces, lock, state, cloud, objects, hist>>

\* step "Configure AWS credentials" (role-to-assume)
ConfigureCredentials(r) ==
    /\ run[r].pc = "creds"
    /\ run' = [run EXCEPT ![r] = [@ EXCEPT !.creds = TRUE, !.pc = "script"]]
    /\ UNCHANGED <<chat, boot, bs, store, account, decl, tfvars, workspaces, lock, state, cloud, objects, hist>>

\* deploy.sh: terraform init; workspace new if the list lacks it, else select
DeployWorkspace(r) ==
    /\ run[r].pc = "script"
    /\ run[r].mode = "deploy"
    /\ IF boot.bucket
       THEN /\ workspaces' = workspaces \cup {run[r].env}
            /\ store' = store \cup {[path |-> StatePath("deploy", run[r].env),
                                      env |-> run[r].env, cfg |-> "deploy"]}
            /\ run' = [run EXCEPT ![r] = [@ EXCEPT !.pc = "build", !.ws = run[r].env]]
       ELSE /\ run' = [run EXCEPT ![r] = [@ EXCEPT !.pc = "failed", !.err = "NoBackend"]]
            /\ UNCHANGED <<chat, workspaces, store>>
    /\ UNCHANGED <<chat, boot, bs, account, decl, tfvars, lock, state, cloud, objects, hist>>

\* faulty variant: the workspace is selected without looking at the list
DestroyWorkspaceNoCheck(r) ==
    /\ run[r].pc = "script"
    /\ run[r].mode = "destroy"
    /\ run' = [run EXCEPT ![r] =
                 IF ~boot.bucket
                 THEN [@ EXCEPT !.pc = "failed", !.err = "NoBackend"]
                 ELSE [@ EXCEPT !.pc = "empty_frontend", !.ws = run[r].env]]
    /\ UNCHANGED <<chat, boot, bs, store, account, decl, tfvars, workspaces, lock, state, cloud, objects, hist>>

\* faulty variant: the script deletes the workspace, and its state object
\* with it, before anything is destroyed
DestroyWorkspaceDeleted(r) ==
    /\ run[r].pc = "script"
    /\ run[r].mode = "destroy"
    /\ LET gone == boot.bucket /\ run[r].env \in workspaces
       IN  /\ workspaces' = IF gone THEN workspaces \ {run[r].env} ELSE workspaces
           /\ store' = IF gone THEN {x \in store : x.env # run[r].env} ELSE store
           /\ run' = [run EXCEPT ![r] =
                        IF gone THEN [@ EXCEPT !.pc = "empty_frontend", !.ws = run[r].env]
                        ELSE [@ EXCEPT !.pc = "failed", !.err = "NoWorkspace"]]
    /\ UNCHANGED <<chat, boot, bs, account, decl, tfvars, lock, state, cloud, objects, hist>>

\* destroy.sh: terraform init; if the workspace list lacks the environment,
\* print the error and the list and exit 1, else select it
DestroyWorkspace(r) ==
    /\ run[r].pc = "script"
    /\ run[r].mode = "destroy"
    /\ run' = [run EXCEPT ![r] =
                 IF ~boot.bucket
                 THEN [@ EXCEPT !.pc = "failed", !.err = "NoBackend"]
                 ELSE IF run[r].env \notin workspaces
                 THEN [@ EXCEPT !.pc = "failed", !.err = "NoWorkspace",
                                !.listed = workspaces \cup {"default"}]
                 ELSE [@ EXCEPT !.pc = "empty_frontend", !.ws = run[r].env]]
    /\ UNCHANGED <<chat, boot, bs, store, account, decl, tfvars, workspaces, lock, state, cloud, objects, hist>>

\* destroy.sh: aws s3 rm --recursive on a bucket, if aws s3 ls finds it;
\* after the second bucket destroy.sh puts a dummy lambda-deployment.zip in
\* place if there is none, destroy.ps1 does not
EmptyBucket(r, b) ==
    /\ run[r].pc = "empty_" \o b
    /\ LET e == run[r].env
           found == b \in cloud[e]
       IN  /\ objects' = IF found THEN [objects EXCEPT ![e] = @ \ {b}] ELSE objects
           /\ run' = [run EXCEPT ![r] =
                        [@ EXCEPT !.pc = IF b = "frontend" THEN "empty_memory" ELSE "build",
                                  !.emptied = IF found THEN @ \cup {b} ELSE @,
                                  !.zip = @ \/ (b = "memory" /\ run[r].shell = "sh"),
                                  !.origin = IF b = "memory" /\ run[r].shell = "sh"
                                                /\ ~run[r].zip
                                             THEN "placeholder" ELSE @]]
    /\ UNCHANGED <<chat, boot, bs, store, account, decl, tfvars, workspaces, lock, state, cloud, hist>>

(***************************************************************************)
(* terraform apply / terraform destroy                                     *)
(***************************************************************************)
\* Graph Builder: a build error ends the command before anything is locked;
\* filebase64sha256 of a lambda-deployment.zip that does not exist is an
\* error of the configuration
TerraformBuild(r) ==
    /\ run[r].pc = "build"
    /\ LET g == Build(decl, Overlay(run[r].env))
       IN  run' = [run EXCEPT ![r] =
                     IF ~run[r].zip
                     THEN [@ EXCEPT !.pc = "failed", !.err = "MissingArtifact"]
                     ELSE IF g.status = "ok"
                     THEN [@ EXCEPT !.pc = "locking", !.nodes = g.nodes]
                     ELSE [@ EXCEPT !.pc = "failed", !.err = g.status]]
    /\ UNCHANGED <<chat, boot, bs, store, account, decl, tfvars, workspaces, lock, state, cloud, objects, hist>>

\* Locking: the lock record of the environment is written if there is none
AcquireLock(r) ==
    /\ run[r].pc = "locking"
    /\ UseLockfile => \A f \in SameLock(run[r].env) : lock[f] = {}
    /\ lock' = [lock EXCEPT ![run[r].env] = @ \cup {r}]
    /\ run' = [run EXCEPT ![r] = [@ EXCEPT !.pc = "diffing"]]
    /\ UNCHANGED <<chat, boot, bs, store, account, decl, tfvars, workspaces, state, cloud, objects, hist>>

\* Locking: the lock is held; the command fails at once
LockConflict(r) ==
    /\ run[r].pc = "locking"
    /\ UseLockfile
    /\ \E f \in SameLock(run[r].env) : lock[f] # {}
    /\ run' = [run EXCEPT ![r] = [@ EXCEPT !.pc = "failed", !.err = "LockConflictError"]]
    /\ UNCHANGED <<chat, boot, bs, store, account, decl, tfvars, workspaces, lock, state, cloud, objects, hist>>

\* Diffing: classify every node against the StateRecord
Diff(r) ==
    /\ run[r].pc = "diffing"
    /\ LET e == run[r].env
       IN  run' = [run EXCEPT ![r] =
                     [@ EXCEPT !.pc = "executing",
                               !.prior = state[e],
                               !.priorHist = hist[e],
                               !.plan = Plan(run[r].mode, decl, Overlay(e),
                                             run[r].nodes, state[e])]]
    /\ UNCHANGED <<chat, boot, bs, store, account, decl, tfvars, workspaces, lock, state, cloud, objects, hist>>

\* Executing: issue the next action of the plan, or finish; nothing is
\* issued once a cancellation has been requested
StartAction(r) ==
    /\ run[r].pc = "executing"
    /\ ~run[r].cancel
    /\ run' = [run EXCEPT ![r] =
                 IF run[r].plan = <<>>
                 THEN [@ EXCEPT !.pc = "unlocking"]
                 ELSE [@ EXCEPT !.pc = "acting",
                                !.cur = Head(run[r].plan),
                                !.issued = Append(@, Head(run[r].plan))]]
    /\ UNCHANGED <<chat, boot, bs, store, account, decl, tfvars, workspaces, lock, state, cloud, objects, hist>>

\* a bucket that still holds objects cannot be deleted
BucketNotEmpty(e, step) ==
    step.kind = "delete" /\ step.node \in Buckets /\ step.node \in objects[e]

\* the provider adapter completes the action in flight
ProviderSuccess(r) ==
    /\ run[r].pc = "acting"
    /\ ~BucketNotEmpty(run[r].env, run[r].cur)
    /\ LET e == run[r].env
           n == run[r].cur.node
       IN  /\ cloud' = [cloud EXCEPT ![e] =
                          IF run[r].cur.kind = "delete" THEN @ \ {n} ELSE @ \cup {n}]
           /\ account' = IF run[r].cur.kind = "delete"
                         THEN account \ {ResourceName(e, n)}
                         ELSE account \cup {ResourceName(e, n)}
    /\ run' = [run EXCEPT ![r] = [@ EXCEPT !.pc = "persisting", !.polls = 0]]
    /\ UNCHANGED <<chat, boot, bs, store, decl, tfvars, workspaces, lock, state, objects, hist>>

\* the provider adapter reports an error: the run halts, nothing is retried
ProviderFailure(r) ==
    /\ run[r].pc = "acting"
    /\ run' = [run EXCEPT ![r] =
                 [@ EXCEPT !.pc = "unlocking", !.err = "ProviderActionError",
                           !.cur = NoStep, !.polls = 0]]
    /\ UNCHANGED <<chat, boot, bs, store, account, decl, tfvars, workspaces, lock, state, cloud, objects, hist>>

\* faulty variant: the adapter polls without counting
ProviderPendingForever(r) ==
    /\ run[r].pc = "acting"
    /\ run' = [run EXCEPT ![r] = [@ EXCEPT !.polls = (@ + 1) % MaxPolls]]
    /\ UNCHANGED <<chat, boot, bs, store, account, decl, tfvars, workspaces, lock, state, cloud, objects, hist>>

\* the action has not completed yet: the adapter polls again, MaxPolls
\* times at most
ProviderPending(r) ==
    /\ run[r].pc = "acting"
    /\ run[r].polls < MaxPolls
    /\ run' = [run EXCEPT ![r] = [@ EXCEPT !.polls = @ + 1]]
    /\ UNCHANGED <<chat, boot, bs, store, account, decl, tfvars, workspaces, lock, state, cloud, objects, hist>>

\* the polls are used up: TimeoutError, which ends the run as a failed
\* action does
ProviderTimeout(r) ==
    /\ run[r].pc = "acting"
    /\ run[r].polls = MaxPolls
    /\ run' = [run EXCEPT ![r] =
                 [@ EXCEPT !.pc = "unlocking", !.err = "TimeoutError",
                           !.cur = NoStep, !.polls = 0]]
    /\ UNCHANGED <<chat, boot, bs, store, account, decl, tfvars, workspaces, lock, state, cloud, objects, hist>>

\* faulty variant: the record is not written as the run goes, the run
\* moves on to the next action
PersistLater(r) ==
    /\ run[r].pc = "persisting"
    /\ run' = [run EXCEPT ![r] =
                 [@ EXCEPT !.pc = "executing", !.plan = Tail(@), !.cur = NoStep]]
    /\ UNCHANGED <<chat, boot, bs, store, account, decl, tfvars, workspaces, lock, state, cloud, objects, hist>>

\* Persisting: the StateRecord is written after each successful action
Persist(r) ==
    /\ run[r].pc = "persisting"
    /\ LET e == run[r].env
           n == run[r].cur.node
       IN  state' = [state EXCEPT ![e][n] =
                       IF run[r].cur.kind = "delete" THEN Absent
                       ELSE Desired(n, Overlay(e))]
           /\ hist' = [hist EXCEPT ![e] = "live"]
    /\ run' = [run EXCEPT ![r] =
                 [@ EXCEPT !.pc = "executing", !.plan = Tail(@), !.cur = NoStep]]
    /\ UNCHANGED <<chat, boot, bs, store, account, decl, tfvars, workspaces, lock, cloud, objects>>

\* faulty variant: the script without set -e carries on after a failed command
AfterTerraformNoSetE(ok, mode) == IF mode = "deploy" THEN "sync" ELSE "done"

\* set -e: a failed terraform command ends the script; after a successful
\* apply deploy.sh goes on to build and sync the frontend
AfterTerraform(ok, mode) ==
    IF ~ok THEN "failed" ELSE IF mode = "deploy" THEN "sync" ELSE "done"

Deleted(r) == \E i \in 1..Len(run[r].issued) : run[r].issued[i].kind = "delete"

\* Unlocking: on the exit path of the command, success or failure; the
\* command's working set (graph, prior record, plan, issued actions) goes
\* with it
Unlock(r) ==
    /\ run[r].pc = "unlocking"
    /\ LET e  == run[r].env
           ok == run[r].err = "none"
       IN  /\ lock' = [lock EXCEPT ![e] = @ \ {r}]
           /\ hist' = IF ok /\ run[r].mode = "destroy" /\ Deleted(r)
                      THEN [hist EXCEPT ![e] = "destroyed"]
                      ELSE hist
           /\ run' = [run EXCEPT ![r] =
                        [@ EXCEPT !.nodes = {}, !.prior = EmptyRecord,
                                  !.priorHist = "live", !.plan = <<>>,
                                  !.issued = <<>>, !.settled = {},
                                  !.pc = AfterTerraform(ok, run[r].mode)]]
    /\ UNCHANGED <<chat, boot, bs, store, account, decl, tfvars, workspaces, state, cloud, objects>>

\* deploy.sh: aws s3 sync ./out s3://$FRONTEND_BUCKET/ --delete
SyncFrontend(r) ==
    /\ run[r].pc = "sync"
    /\ LET e == run[r].env
       IN  IF "frontend" \in cloud[e]
           THEN /\ objects' = [objects EXCEPT ![e] = @ \cup {"frontend"}]
                /\ run' = [run EXCEPT ![r] = [@ EXCEPT !.pc = "done"]]
           ELSE /\ objects' = objects
                /\ run' = [run EXCEPT ![r] = [@ EXCEPT !.pc = "failed", !.err = "SyncError"]]
    /\ UNCHANGED <<chat, boot, bs, store, account, decl, tfvars, workspaces, lock, state, cloud, hist>>

\* the command has returned; the invocation is over
Exit(r) ==
    /\ run[r].pc \in {"done", "failed"}
    /\ run' = [run EXCEPT ![r] = IdleRun]
    /\ UNCHANGED <<chat, boot, bs, store, account, decl, tfvars, workspaces, lock, state, cloud, objects, hist>>

\* the deployed function stores a conversation in the memory bucket
AppWrite(e) ==
    /\ {"api", "memory"} \subseteq cloud[e]
    /\ "memory" \notin objects[e]
    /\ objects' = [objects EXCEPT ![e] = @ \cup {"memory"}]
    /\ UNCHANGED <<chat, boot, bs, store, account, decl, tfvars, workspaces, lock, state, cloud, hist, run>>

RunStep(r) ==
    \/ VerifyConfirmation(r)
    \/ ConfigureCredentials(r)
    \/ DeployWorkspace(r)
    \/ DestroyWorkspace(r)
    \/ \E b \in Buckets : EmptyBucket(r, b)
    \/ TerraformBuild(r)
    \/ AcquireLock(r)
    \/ LockConflict(r)
    \/ Diff(r)
    \/ StartAction(r)
    \/ ProviderSuccess(r)
    \/ ProviderFailure(r)
    \/ Persist(r)
    \/ Unlock(r)
    \/ SyncFrontend(r)
    \/ Exit(r)

\* every invocation so far named environment e
SameTarget(e) ==
    /\ workspaces \subseteq {e}
    /\ \A q \in Runs : run[q].pc # "idle" => run[q].env = e

\* an operator runs scripts/deploy.sh <env> or scripts/destroy.sh <env>
OperatorRuns(r) ==
    \E e \in Envs, m \in {"deploy", "destroy"} :
        SameTarget(e) /\ Start(r, e, m, "local", "")

\* the destroy workflow is dispatched with an environment and a confirmation
DispatchDestroy(r) ==
    \E e \in Envs, c \in ConfirmValues :
        SameTarget(e) /\ Start(r, e, "destroy", "pipeline", c)

\* invocations against one environment, two at a time
Next ==
    \/ \E r \in Runs : OperatorRuns(r)
    \/ \E r \in Runs : DispatchDestroy(r)
    \/ \E r \in Runs : RunStep(r)
    \/ \E e \in Envs : AppWrite(e)

Spec == Init /\ [][Next]_vars

(***************************************************************************)
(* One operator, every declared resource set over three resources          *)
(***************************************************************************)
\* Bucket, Function, Edge
GraphOrder == <<"memory", "api", "cloudfront">>

GraphNodes == {GraphOrder[i] : i \in 1..Len(GraphOrder)}

\* a declaration in which node n names the producers P[n]: the bucket is
\* named through depends_on, the others through an attribute reference
DeclOf(P) ==
    [order |-> GraphOrder,
     refs  |-> [n \in GraphNodes |-> [t \in BOOLEAN |-> P[n] \ {"memory"}]],
     deps  |-> [n \in GraphNodes |-> P[n] \cap {"memory"}],
     cond  |-> {}]

\* "site" is declared by none of them: a reference to it does not resolve
GraphDecls ==
    {DeclOf(P) : P \in {Q \in [GraphNodes -> SUBSET (GraphNodes \cup {"site"})] :
                          \A n \in GraphNodes : n \notin Q[n]}}

\* {Bucket, Function(dependsOn Bucket), Edge(references Function.address)}
ScenarioDecl ==
    DeclOf([n \in GraphNodes |->
              CASE n = "api" -> {"memory"} [] n = "cloudfront" -> {"api"} [] OTHER -> {}])

InitGraph ==
    /\ decl \in GraphDecls \cup {MainTf}
    /\ tfvars = TfvarsFiles
    /\ workspaces = {}
    /\ lock = [e \in Envs |-> {}]
    /\ state = [e \in Envs |-> EmptyRecord]
    /\ cloud = [e \in Envs |-> {}]
    /\ objects = [e \in Envs |-> {}]
    /\ hist = [e \in Envs |-> "live"]
    /\ run = [r \in Runs |-> IdleRun]
    /\ boot = Bootstrapped
    /\ bs = [b \in Runs |-> IdleBootstrap]
    /\ store = {}
    /\ account = {}
    /\ chat = IdleChat

\* terraform/main.tf is edited between runs: the same three resources, other
\* references among them
EditMainTf ==
    /\ \A r \in Runs : run[r].pc = "idle"
    /\ decl \in GraphDecls
    /\ decl' \in GraphDecls
    /\ UNCHANGED <<chat, boot, bs, store, account, tfvars, workspaces, lock, state, cloud, objects, hist, run>>

NextGraph ==
    \/ EditMainTf
    \/ OperatorRuns(1)
    \/ DeployWorkspace(1)
    \/ DestroyWorkspace(1)
    \/ \E b \in Buckets : EmptyBucket(1, b)
    \/ TerraformBuild(1)
    \/ AcquireLock(1)
    \/ Diff(1)
    \/ StartAction(1)
    \/ ProviderSuccess(1)
    \/ ProviderFailure(1)
    \/ Persist(1)
    \/ Unlock(1)
    \/ SyncFrontend(1)
    \/ Exit(1)
    \/ \E e \in Envs : AppWrite(e)

SpecGraph == InitGraph /\ [][NextGraph]_vars

(***************************************************************************)
(* Operators competing for one environment's state lock                    *)
(***************************************************************************)
\* ./scripts/deploy.sh dev and ./scripts/destroy.sh dev, started at will
NextLock ==
    \E r \in Runs :
        \/ \E m \in {"deploy", "destroy"} : Start(r, "dev", m, "local", "")
        \/ DeployWorkspace(r)
        \/ DestroyWorkspace(r)
        \/ \E b \in Buckets : EmptyBucket(r, b)
        \/ TerraformBuild(r)
        \/ AcquireLock(r)
        \/ LockConflict(r)
        \/ Diff(r)
        \/ StartAction(r)
        \/ ProviderSuccess(r)
        \/ ProviderFailure(r)
        \/ Persist(r)
        \/ Unlock(r)
        \/ SyncFrontend(r)
        \/ Exit(r)

SpecLock == Init /\ [][NextLock]_vars

(***************************************************************************)
(* Operators on one environment, terraform processes that may be killed    *)
(***************************************************************************)
\* the terraform process is killed (runner lost, SIGKILL) while it holds the
\* lock: nothing more of it runs, the lock record is not removed; killed
\* in "persisting" the provider has completed the action, the record has
\* not been written
Crash(r) ==
    /\ run[r].pc \in {"diffing", "executing", "acting", "persisting", "unlocking"}
    /\ run' = [run EXCEPT ![r] = [@ EXCEPT !.pc = "crashed", !.err = "Crashed"]]
    /\ UNCHANGED <<chat, boot, bs, store, account, decl, tfvars, workspaces, lock, state, cloud, objects, hist>>

NextCrash ==
    \E r \in Runs :
        \/ \E m \in {"deploy", "destroy"} : Start(r, "dev", m, "local", "")
        \/ DeployWorkspace(r)
        \/ DestroyWorkspace(r)
        \/ \E b \in Buckets : EmptyBucket(r, b)
        \/ TerraformBuild(r)
        \/ AcquireLock(r)
        \/ LockConflict(r)
        \/ Diff(r)
        \/ StartAction(r)
        \/ ProviderSuccess(r)
        \/ ProviderFailure(r)
        \/ Persist(r)
        \/ Unlock(r)
        \/ Crash(r)
        \/ SyncFrontend(r)
        \/ Exit(r)

SpecCrash == Init /\ [][NextCrash]_vars

(***************************************************************************)
(* scripts/bootstrap-terraform-backend.sh                                  *)
(***************************************************************************)
\* AWS_REGION of the invocation: the default, or another region
Regions == {"us-east-1", "eu-west-1"}

Hardening == {"put-bucket-versioning", "put-bucket-encryption", "put-public-access-block"}

\* the script is started; seen keeps what the account held at that moment
StartBootstrap(b, rg) ==
    /\ bs[b].pc = "idle"
    /\ \A q \in Runs : q < b => bs[q].pc # "idle"
    /\ bs' = [bs EXCEPT ![b] =
                [IdleBootstrap EXCEPT !.pc = "head_bucket", !.region = rg,
                                      !.seen = boot]]
    /\ UNCHANGED <<chat, boot, store, account, decl, tfvars, workspaces, lock, state, cloud,
                   objects, hist, run>>

\* faulty variant: an existing bucket is hardened again
HeadBucketReharden(b) ==
    /\ bs[b].pc = "head_bucket"
    /\ bs' = [bs EXCEPT ![b] =
                IF boot.bucket
                THEN [@ EXCEPT !.found = TRUE, !.pc = "put_versioning"]
                ELSE [@ EXCEPT !.pc = "create_bucket"]]
    /\ UNCHANGED <<chat, boot, store, account, decl, tfvars, workspaces, lock, state, cloud,
                   objects, hist, run>>

\* if aws s3api head-bucket ...; then "already exists" else create
HeadBucket(b) ==
    /\ bs[b].pc = "head_bucket"
    /\ bs' = [bs EXCEPT ![b] =
                IF boot.bucket
                THEN [@ EXCEPT !.found = TRUE, !.pc = "describe_table"]
                ELSE [@ EXCEPT !.pc = "create_bucket"]]
    /\ UNCHANGED <<chat, boot, store, account, decl, tfvars, workspaces, lock, state, cloud,
                   objects, hist, run>>

\* aws s3api create-bucket. On a bucket the account already owns the call
\* answers 200 in us-east-1 and BucketAlreadyOwnedByYou in every other
\* region; set -e ends the script on an error
CreateBucket(b) ==
    /\ bs[b].pc = "create_bucket"
    /\ LET ok == ~boot.bucket \/ bs[b].region = "us-east-1"
       IN  /\ boot' = [boot EXCEPT !.bucket = TRUE]
           /\ bs' = [bs EXCEPT ![b] =
                       [@ EXCEPT !.calls = @ \cup {"create-bucket"},
                                 !.err = IF ok THEN "none" ELSE "BucketAlreadyOwnedByYou",
                                 !.pc = IF ok THEN "put_versioning" ELSE "aborted"]]
    /\ UNCHANGED <<chat, store, account, decl, tfvars, workspaces, lock, state, cloud,
                   objects, hist, run>>

\* the platform refuses create-bucket (no s3:CreateBucket): set -e ends the
\* script
CreateBucketRefused(b) ==
    /\ bs[b].pc = "create_bucket"
    /\ bs' = [bs EXCEPT ![b] =
                [@ EXCEPT !.calls = @ \cup {"create-bucket"}, !.err = "AccessDenied",
                          !.pc = "aborted"]]
    /\ UNCHANGED <<chat, boot, store, account, decl, tfvars, workspaces, lock, state, cloud,
                   objects, hist, run>>

\* aws s3api put-bucket-versioning
PutVersioning(b) ==
    /\ bs[b].pc = "put_versioning"
    /\ boot' = [boot EXCEPT !.versioning = TRUE]
    /\ bs' = [bs EXCEPT ![b] =
                [@ EXCEPT !.calls = @ \cup {"put-bucket-versioning"},
                          !.pc = "put_encryption"]]
    /\ UNCHANGED <<chat, store, account, decl, tfvars, workspaces, lock, state, cloud,
                   objects, hist, run>>

\* aws s3api put-bucket-encryption
PutEncryption(b) ==
    /\ bs[b].pc = "put_encryption"
    /\ boot' = [boot EXCEPT !.encryption = TRUE]
    /\ bs' = [bs EXCEPT ![b] =
                [@ EXCEPT !.calls = @ \cup {"put-bucket-encryption"},
                          !.pc = "put_public_block"]]
    /\ UNCHANGED <<chat, store, account, decl, tfvars, workspaces, lock, state, cloud,
                   objects, hist, run>>

\* aws s3api put-public-access-block
PutPublicAccessBlock(b) ==
    /\ bs[b].pc = "put_public_block"
    /\ boot' = [boot EXCEPT !.publicBlock = TRUE]
    /\ bs' = [bs EXCEPT ![b] =
                [@ EXCEPT !.calls = @ \cup {"put-public-access-block"},
                          !.pc = "describe_table"]]
    /\ UNCHANGED <<chat, store, account, decl, tfvars, workspaces, lock, state, cloud,
                   objects, hist, run>>

\* faulty variant: the table is created without looking for it
DescribeTableMiss(b) ==
    /\ bs[b].pc = "describe_table"
    /\ bs' = [bs EXCEPT ![b] = [@ EXCEPT !.pc = "create_table"]]
    /\ UNCHANGED <<chat, boot, store, account, decl, tfvars, workspaces, lock, state, cloud,
                   objects, hist, run>>

\* if aws dynamodb describe-table ...; then "already exists" else create
DescribeTable(b) ==
    /\ bs[b].pc = "describe_table"
    /\ bs' = [bs EXCEPT ![b] =
                [@ EXCEPT !.pc = IF boot.table THEN "write_backend" ELSE "create_table"]]
    /\ UNCHANGED <<chat, boot, store, account, decl, tfvars, workspaces, lock, state, cloud,
                   objects, hist, run>>

\* faulty variant: create-table under set -e
CreateTableStrict(b) ==
    /\ bs[b].pc = "create_table"
    /\ \E granted \in BOOLEAN :
          LET ok == granted /\ ~boot.table
          IN  /\ boot' = [boot EXCEPT !.table = @ \/ ok]
              /\ bs' = [bs EXCEPT ![b] =
                          [@ EXCEPT !.calls = @ \cup {"create-table"},
                                    !.err = IF ok THEN "none" ELSE "CreateTableFailed",
                                    !.pc = IF ok THEN "write_backend" ELSE "aborted"]]
    /\ UNCHANGED <<chat, store, account, decl, tfvars, workspaces, lock, state, cloud,
                   objects, hist, run>>

\* set +e; aws dynamodb create-table; a refusal (or a table that exists by
\* now) prints the warning and the script goes on; set -e
CreateTable(b) ==
    /\ bs[b].pc = "create_table"
    /\ \E granted \in BOOLEAN :
          LET ok == granted /\ ~boot.table
          IN  /\ boot' = [boot EXCEPT !.table = @ \/ ok]
              /\ bs' = [bs EXCEPT ![b] =
                          [@ EXCEPT !.calls = @ \cup {"create-table"},
                                    !.warned = ~ok,
                                    !.pc = "write_backend"]]
    /\ UNCHANGED <<chat, store, account, decl, tfvars, workspaces, lock, state, cloud,
                   objects, hist, run>>

\* cat > terraform/backend.hcl; "Bootstrap complete!"
WriteBackendConfig(b) ==
    /\ bs[b].pc = "write_backend"
    /\ boot' = [boot EXCEPT !.hcl = BootstrapKey]
    /\ bs' = [bs EXCEPT ![b] =
                [@ EXCEPT !.calls = @ \cup {"write-backend-hcl"}, !.pc = "done"]]
    /\ UNCHANGED <<chat, store, account, decl, tfvars, workspaces, lock, state, cloud,
                   objects, hist, run>>

\* the script has returned
ExitBootstrap(b) ==
    /\ bs[b].pc \in {"done", "aborted"}
    /\ bs' = [bs EXCEPT ![b] = IdleBootstrap]
    /\ UNCHANGED <<chat, boot, store, account, decl, tfvars, workspaces, lock, state, cloud,
                   objects, hist, run>>

BootstrapStep(b) ==
    \/ \E rg \in Regions : StartBootstrap(b, rg)
    \/ HeadBucket(b)
    \/ CreateBucket(b)
    \/ CreateBucketRefused(b)
    \/ PutVersioning(b)
    \/ PutEncryption(b)
    \/ PutPublicAccessBlock(b)
    \/ DescribeTable(b)
    \/ CreateTable(b)
    \/ WriteBackendConfig(b)
    \/ ExitBootstrap(b)

\* an account in which nothing of the backend exists yet
InitBoot ==
    /\ decl = MainTf
    /\ tfvars = TfvarsFiles
    /\ workspaces = {}
    /\ lock = [e \in Envs |-> {}]
    /\ state = [e \in Envs |-> EmptyRecord]
    /\ cloud = [e \in Envs |-> {}]
    /\ objects = [e \in Envs |-> {}]
    /\ hist = [e \in Envs |-> "live"]
    /\ run = [r \in Runs |-> IdleRun]
    /\ boot = NoBackend
    /\ bs = [b \in Runs |-> IdleBootstrap]
    /\ store = {}
    /\ account = {}
    /\ chat = IdleChat

NextBoot == \E b \in Runs : BootstrapStep(b)

SpecBoot == InitBoot /\ [][NextBoot]_vars

(***************************************************************************)
(* Bootstrap, then operators on one environment                            *)
(***************************************************************************)
\* terraform init was given dynamodb_table=twin-terraform-locks and the table
\* was never created: the lock cannot be taken and the command fails
LockTableMissing(r) ==
    /\ run[r].pc = "locking"
    /\ ~boot.table
    /\ run' = [run EXCEPT ![r] = [@ EXCEPT !.pc = "failed", !.err = "LockTableMissing"]]
    /\ UNCHANGED <<chat, boot, bs, store, account, decl, tfvars, workspaces, lock, state, cloud,
                   objects, hist>>

\* the backend is bootstrapped first; the scripts are run once backend.hcl
\* has been written and the bootstrap runs have returned
NextDegraded ==
    \/ /\ boot.hcl = "none"
       /\ \E b \in Runs : BootstrapStep(b)
    \/ /\ boot.hcl # "none"
       /\ \E b \in Runs : bs[b].pc # "idle" /\ BootstrapStep(b)
    \/ /\ boot.hcl # "none"
       /\ \A b \in Runs : bs[b].pc = "idle"
       /\ \E r \in Pair :
              \/ \E m \in {"deploy", "destroy"} : Start(r, "dev", m, "local", "")
              \/ DeployWorkspace(r)
              \/ DestroyWorkspace(r)
              \/ \E b \in Buckets : EmptyBucket(r, b)
              \/ TerraformBuild(r)
              \/ AcquireLock(r)
              \/ LockConflict(r)
              \/ LockTableMissing(r)
              \/ Diff(r)
              \/ StartAction(r)
              \/ ProviderSuccess(r)
              \/ ProviderFailure(r)
              \/ Persist(r)
              \/ Unlock(r)
              \/ SyncFrontend(r)
              \/ Exit(r)

SpecDegraded == InitBoot /\ [][NextDegraded]_vars

(***************************************************************************)
(* State keys of the three environments                                    *)
(***************************************************************************)
\* variable "environment": dev, test, prod
AllEnvs == {"dev", "test", "prod"}

\* who passed the backend configuration to terraform init
Configurers == {"bootstrap", "deploy", "destroy"}

\* terraform init with the configurer's key, then workspace select / new of
\* environment e: the StateRecord of e lives under the resulting path
TerraformInit(cfg, e) ==
    /\ boot.bucket
    /\ store' = store \cup {[path |-> StatePath(cfg, e), env |-> e, cfg |-> cfg]}
    /\ UNCHANGED <<chat, boot, bs, account, decl, tfvars, workspaces, lock, state, cloud,
                   objects, hist, run>>

NextKeys == \E cfg \in Configurers : \E e \in AllEnvs : TerraformInit(cfg, e)

SpecKeys == Init /\ [][NextKeys]_vars

(***************************************************************************)
(* One operator, both environments of the project                          *)
(***************************************************************************)
\* ./scripts/deploy.sh dev, ./scripts/deploy.sh prod, ./scripts/destroy.sh dev,
\* ./scripts/destroy.sh prod in any order, one at a time
NextEnvs ==
    \/ \E e \in Envs, m \in {"deploy", "destroy"} : Start(1, e, m, "local", "")
    \/ DeployWorkspace(1)
    \/ DestroyWorkspace(1)
    \/ \E b \in Buckets : EmptyBucket(1, b)
    \/ TerraformBuild(1)
    \/ AcquireLock(1)
    \/ Diff(1)
    \/ StartAction(1)
    \/ ProviderSuccess(1)
    \/ ProviderFailure(1)
    \/ Persist(1)
    \/ Unlock(1)
    \/ SyncFrontend(1)
    \/ Exit(1)

SpecEnvs == Init /\ [][NextEnvs]_vars

(***************************************************************************)
(* Two invocations, each on either environment                             *)
(***************************************************************************)
\* ./scripts/deploy.sh and ./scripts/destroy.sh on dev and prod, two at a time
NextPair ==
    \E r \in Pair :
        \/ \E e \in Envs, m \in {"deploy", "destroy"} : Start(r, e, m, "local", "")
        \/ DeployWorkspace(r)
        \/ DestroyWorkspace(r)
        \/ \E b \in Buckets : EmptyBucket(r, b)
        \/ TerraformBuild(r)
        \/ AcquireLock(r)
        \/ LockConflict(r)
        \/ Diff(r)
        \/ StartAction(r)
        \/ ProviderSuccess(r)
        \/ ProviderFailure(r)
        \/ Persist(r)
        \/ Unlock(r)
        \/ SyncFrontend(r)
        \/ Exit(r)

SpecPair == Init /\ [][NextPair]_vars

(***************************************************************************)
(* One operator, use_custom_domain edited between runs                     *)
(***************************************************************************)
\* use_custom_domain is edited in terraform.tfvars or prod.tfvars
EditTfvars ==
    /\ \A r \in Runs : run[r].pc = "idle"
    /\ \E f \in DOMAIN tfvars : tfvars' = [tfvars EXCEPT ![f] = ~@]
    /\ UNCHANGED <<chat, boot, bs, store, account, decl, workspaces, lock, state, cloud,
                   objects, hist, run>>

NextToggle ==
    \/ EditTfvars
    \/ \E e \in Envs, m \in {"deploy", "destroy"} : Start(1, e, m, "local", "")
    \/ DeployWorkspace(1)
    \/ DestroyWorkspace(1)
    \/ \E b \in Buckets : EmptyBucket(1, b)
    \/ TerraformBuild(1)
    \/ AcquireLock(1)
    \/ Diff(1)
    \/ StartAction(1)
    \/ ProviderSuccess(1)
    \/ ProviderFailure(1)
    \/ Persist(1)
    \/ Unlock(1)
    \/ SyncFrontend(1)
    \/ Exit(1)

SpecToggle == Init /\ [][NextToggle]_vars

(***************************************************************************)
(* One operator, bash or PowerShell, with or without a built package       *)
(***************************************************************************)
Shells == {"sh", "ps1"}

\* what backend/lambda-deployment.zip of the working tree is when a script
\* is started: not there, the package of an earlier deploy run, or the
\* dummy an earlier destroy.sh left
Trees == {"none", "earlier", "placeholder"}

\* deploy.sh / deploy.ps1 / destroy.sh / destroy.ps1 started in a working
\* tree that holds backend/lambda-deployment.zip or does not; the deploy
\* scripts begin by building the package
StartIn(r, e, m, sh, z) ==
    /\ run[r].pc = "idle"
    /\ run' = [run EXCEPT ![r] =
                 [IdleRun EXCEPT !.env = e, !.mode = m, !.shell = sh,
                                 !.zip = (z # "none"), !.origin = z,
                                 !.pc = IF m = "deploy" THEN "package" ELSE "script"]]
    /\ UNCHANGED <<chat, boot, bs, store, account, decl, tfvars, workspaces, lock, state, cloud,
                   objects, hist>>

\* (cd backend && uv run deploy.py): deploy.py removes the old package
\* first and writes the new one last. When the command fails, deploy.py
\* has removed the old package, or uv failed before starting it and the
\* package is as it was. set -e ends deploy.sh on the failure; in
\* deploy.ps1 the exit status of a native command does not stop the script
BuildLambdaPackage(r) ==
    /\ run[r].pc = "package"
    /\ \E out \in {"built", "removed", "untouched"} :
          run' = [run EXCEPT ![r] =
                    IF out = "built"
                    THEN [@ EXCEPT !.zip = TRUE, !.origin = "built", !.pc = "script"]
                    ELSE LET z == IF out = "removed" THEN FALSE ELSE run[r].zip
                             o == IF out = "removed" THEN "none" ELSE run[r].origin
                         IN  IF run[r].shell = "sh"
                             THEN [@ EXCEPT !.zip = z, !.origin = o,
                                            !.pc = "failed", !.err = "PackageError"]
                             ELSE [@ EXCEPT !.zip = z, !.origin = o, !.pc = "script"]]
    /\ UNCHANGED <<chat, boot, bs, store, account, decl, tfvars, workspaces, lock, state, cloud,
                   objects, hist>>

NextArtifact ==
    \/ \E e \in Envs, m \in {"deploy", "destroy"}, sh \in Shells, z \in Trees :
          StartIn(1, e, m, sh, z)
    \/ BuildLambdaPackage(1)
    \/ DeployWorkspace(1)
    \/ DestroyWorkspace(1)
    \/ \E b \in Buckets : EmptyBucket(1, b)
    \/ TerraformBuild(1)
    \/ AcquireLock(1)
    \/ Diff(1)
    \/ StartAction(1)
    \/ ProviderSuccess(1)
    \/ ProviderFailure(1)
    \/ Persist(1)
    \/ Unlock(1)
    \/ SyncFrontend(1)
    \/ Exit(1)
    \/ \E e \in Envs : AppWrite(e)

SpecArtifact == Init /\ [][NextArtifact]_vars

(***************************************************************************)
(* Properties                                                               *)
(***************************************************************************)
\* the run is inside terraform apply / destroy with the state lock taken
Holding(r) == run[r].pc \in {"diffing", "executing", "acting", "persisting", "unlocking"}

Conflicted(r) == run[r].pc = "failed" /\ run[r].err = "LockConflictError"

IsPrefix(s, t) == Len(s) <= Len(t) /\ \A i \in 1..Len(s) : s[i] = t[i]

\* the edges of the declared set, read off the declaration itself
DeclaredProducers(n, e) == decl.refs[n][Overlay(e)] \cup decl.deps[n]

\* C1: for every environment at most one run holds its Lock in any
\* reachable state, the holder being a run inside its locked phases; of two
\* runs started together on one environment the two do not both lose the
\* Lock: one acquires it.
C1_LockMutualExclusion ==
    /\ \A e \in Envs : Cardinality(lock[e]) <= 1
    /\ \A r \in Runs : Holding(r) <=> r \in lock[run[r].env]
    /\ \A e \in Envs : \A r \in Runs : r \in lock[e] => run[r].env = e
    /\ \E r \in Runs : ~Conflicted(r)

\* two deploy dev runs: one holds the Lock, the other has failed on it
C1_Witness ==
    \E r, q \in Runs :
        /\ r # q
        /\ run[r].env = "dev" /\ run[q].env = "dev"
        /\ run[r].mode = "deploy" /\ run[q].mode = "deploy"
        /\ Holding(r) /\ lock["dev"] = {r}
        /\ Conflicted(q)

\* C2: a run that found the Lock held and ended with LockConflictError has
\* performed no node action: no create, update or delete was issued and no
\* bucket was emptied.
C2_ConflictNoAction ==
    \A r \in Runs : Conflicted(r) => run[r].issued = <<>> /\ run[r].emptied = {}

\* C3: a destroy run whose confirmation value differs from the environment
\* name has exchanged no credentials, taken no lock, emptied no bucket and
\* issued no deletion; equivalently every destroy run that empties or
\* deletes carries a confirmation equal to the environment name.
C3_ConfirmationGate ==
    \A r \in Runs :
        (run[r].pc # "idle" /\ run[r].mode = "destroy" /\ run[r].confirm # run[r].env) =>
            /\ ~run[r].creds
            /\ r \notin lock[run[r].env]
            /\ run[r].emptied = {}
            /\ run[r].issued = <<>>

\* C4: in an apply run, while a node's create / update action is in flight
\* every producer the declaration gives it (attribute reference or
\* depends_on) has been created and recorded; the function of main.tf is
\* not created before the distribution exists; for {Bucket,
\* Function(dependsOn Bucket), Edge(references Function)} applied to an
\* empty record the actions issued are Bucket, Function, Edge in that order.
ScenarioApply ==
    <<[kind |-> "create", node |-> "memory"],
      [kind |-> "create", node |-> "api"],
      [kind |-> "create", node |-> "cloudfront"]>>

C4_ApplyOrder ==
    \A r \in Runs :
        LET e == run[r].env
            n == run[r].cur.node
        IN  /\ (run[r].mode = "deploy" /\ run[r].cur.kind \in {"create", "update"}) =>
                  /\ \A p \in DeclaredProducers(n, e) :
                        state[e][p] # Absent /\ p \in cloud[e]
                  /\ (decl.order = MainOrder /\ n = "api") => "cloudfront" \in cloud[e]
            /\ (decl = ScenarioDecl /\ run[r].mode = "deploy" /\ Holding(r)
                  /\ run[r].prior = EmptyRecord) =>
                  IsPrefix(run[r].issued, ScenarioApply)

\* the scenario graph has been applied to an empty record
C4_Witness ==
    \E r \in Runs :
        /\ decl = ScenarioDecl
        /\ run[r].mode = "deploy" /\ run[r].pc = "unlocking" /\ run[r].err = "none"
        /\ run[r].issued = ScenarioApply

\* C5: in a destroy run, while a node's delete action is in flight no
\* consumer of it (by attribute reference or depends_on) is still recorded
\* or still exists; the distribution of main.tf is not deleted while the
\* function exists; for the scenario graph, fully recorded, the deletions
\* issued are Edge, Function, Bucket in that order.
ScenarioDestroy ==
    <<[kind |-> "delete", node |-> "cloudfront"],
      [kind |-> "delete", node |-> "api"],
      [kind |-> "delete", node |-> "memory"]>>

C5_DestroyOrder ==
    \A r \in Runs :
        LET e == run[r].env
            n == run[r].cur.node
        IN  /\ (run[r].mode = "destroy" /\ run[r].cur.kind = "delete") =>
                  /\ \A c \in DOMAIN decl.refs :
                        n \in DeclaredProducers(c, e) =>
                            state[e][c] = Absent /\ c \notin cloud[e]
                  /\ (decl.order = MainOrder /\ n = "cloudfront") => "api" \notin cloud[e]
            /\ (decl = ScenarioDecl /\ run[r].mode = "destroy" /\ Holding(r)
                  /\ Recorded(run[r].prior) = GraphNodes) =>
                  IsPrefix(run[r].issued, ScenarioDestroy)

\* the scenario graph, fully recorded, has been destroyed
C5_Witness ==
    \E r \in Runs :
        /\ decl = ScenarioDecl
        /\ run[r].mode = "destroy" /\ run[r].pc = "unlocking" /\ run[r].err = "none"
        /\ run[r].issued = ScenarioDestroy

\* C6: a destroy run empties a bucket only as the pre-step of that bucket's
\* own deletion: when the bucket has been emptied and is not yet deleted,
\* every consumer of it is already deleted and the action in flight, if
\* any, is the deletion of that bucket.
C6_EmptiedAtOwnDeletion ==
    \A r \in Runs : \A b \in run[r].emptied :
        LET e == run[r].env
        IN  (run[r].pc \notin {"done", "failed"} /\ b \in cloud[e]) =>
                /\ \A c \in DOMAIN decl.refs :
                      b \in DeclaredProducers(c, e) => c \notin cloud[e]
                /\ run[r].cur.kind # "none" => run[r].cur.node = b

\* C7: a run that ended with CycleError issued no create, update or delete
\* and emptied no bucket, and a declared set with a cycle never gets past
\* Build.
DeclaredCycle(e) ==
    \E m \in DOMAIN decl.refs :
        \/ m \in DeclaredProducers(m, e)
        \/ \E p \in DOMAIN decl.refs :
              \/ p \in DeclaredProducers(m, e) /\ m \in DeclaredProducers(p, e)
              \/ \E q \in DOMAIN decl.refs :
                    /\ p \in DeclaredProducers(m, e)
                    /\ q \in DeclaredProducers(p, e)
                    /\ m \in DeclaredProducers(q, e)

C7_CycleNoAction ==
    \A r \in Runs :
        /\ (run[r].pc = "failed" /\ run[r].err = "CycleError") =>
              run[r].issued = <<>> /\ run[r].emptied = {}
        /\ (decl \in GraphDecls /\ DeclaredCycle(run[r].env)) => ~Holding(r)

\* C8: a run that ended with UnresolvedReferenceError issued no create,
\* update or delete and emptied no bucket, and a declared set with a
\* reference to something it does not declare never gets past Build.
DeclaredDangling(e) ==
    \E m \in DOMAIN decl.refs : \E p \in DeclaredProducers(m, e) : p \notin DOMAIN decl.refs

C8_UnresolvedNoAction ==
    \A r \in Runs :
        /\ (run[r].pc = "failed" /\ run[r].err = "UnresolvedReferenceError") =>
              run[r].issued = <<>> /\ run[r].emptied = {}
        /\ (decl \in GraphDecls /\ DeclaredDangling(run[r].env)) => ~Holding(r)

\* C9: a successful apply leaves every node of the graph recorded with its
\* desired attributes, and an apply that finds the record so issues no
\* action at all and leaves the record as it found it.
C9_ApplyIdempotent ==
    \A r \in Runs :
        LET e == run[r].env
            want == DesiredRecord(decl, Overlay(e), run[r].nodes)
        IN  (run[r].mode = "deploy" /\ run[r].pc \in {"executing", "acting", "persisting", "unlocking"}) =>
                /\ (run[r].pc = "unlocking" /\ run[r].err = "none") => state[e] = want
                /\ run[r].prior = want =>
                      /\ run[r].plan = <<>>
                      /\ run[r].issued = <<>>
                      /\ run[r].cur = NoStep
                      /\ state[e] = run[r].prior

\* a second apply of the same graph has run to its end
C9_Witness ==
    \E r \in Runs :
        /\ run[r].mode = "deploy" /\ run[r].pc = "unlocking" /\ run[r].err = "none"
        /\ run[r].nodes # {}
        /\ run[r].prior = DesiredRecord(decl, Overlay(run[r].env), run[r].nodes)
        /\ run[r].issued = <<>>

\* C10: a successful destroy leaves no node recorded, and a successful apply
\* that starts from the record a destroy left records exactly the node set
\* that an apply to a new environment records: the nodes of the graph.
C10_DestroyApplyRoundTrip ==
    \A r \in Runs :
        LET e == run[r].env
        IN  (run[r].pc = "unlocking" /\ run[r].err = "none") =>
                /\ run[r].mode = "destroy" => Recorded(state[e]) = {}
                /\ (run[r].mode = "deploy" /\ run[r].priorHist = "destroyed") =>
                      run[r].prior = EmptyRecord
                /\ (run[r].mode = "deploy" /\ run[r].prior = EmptyRecord) =>
                      /\ Recorded(state[e]) = run[r].nodes
                      /\ decl \in GraphDecls => Recorded(state[e]) = GraphNodes
                      /\ decl.order = MainOrder =>
                            Recorded(state[e]) =
                                {"memory", "frontend", "api", "cloudfront"}
                                    \cup (IF e = "prod" THEN {"site", "alias_root"} ELSE {})

\* an apply that followed a successful destroy has succeeded
C10_Witness ==
    \E r \in Runs :
        /\ run[r].mode = "deploy" /\ run[r].pc = "unlocking" /\ run[r].err = "none"
        /\ run[r].priorHist = "destroyed"
        /\ run[r].nodes # {}
        /\ Recorded(state[run[r].env]) = run[r].nodes

\* C11: no run that has ended (the script has gone on past terraform, has
\* succeeded or failed, or the terraform process was killed) is still
\* recorded as the holder of its environment's Lock.
C11_LockReleased ==
    \A r \in Runs :
        run[r].pc \in {"sync", "done", "failed", "crashed"} => r \notin lock[run[r].env]

\* C13: the recorded instances of an environment are the resources that
\* exist, except for at most the one node whose action the lock holder has
\* in flight (or had in flight when it was killed); when an action starts
\* the record holds every action completed before it.
Drift(e) == (Recorded(state[e]) \ cloud[e]) \cup (cloud[e] \ Recorded(state[e]))

C13_IncrementalPersistence ==
    /\ \A e \in Envs :
          /\ Drift(e) \subseteq {run[r].cur.node : r \in lock[e]}
          /\ Cardinality(Drift(e)) <= 1
    /\ \A r \in Runs :
          run[r].pc \in {"executing", "acting", "unlocking"} => Drift(run[r].env) = {}

\* a run was killed after the provider created a node and before the
\* record was written; the nodes created before it are recorded
C13_Witness ==
    \E r \in Runs :
        LET e == run[r].env
        IN  /\ run[r].pc = "crashed"
            /\ run[r].cur.kind = "create"
            /\ run[r].cur.node \in cloud[e]
            /\ state[e][run[r].cur.node] = Absent
            /\ Recorded(state[e]) # {}
            /\ Recorded(state[e]) = cloud[e] \ {run[r].cur.node}

C15_EnsureIdempotent ==
    /\ [](\A b \in Runs :
            /\ "create-bucket" \in bs[b].calls => ~bs[b].seen.bucket
            /\ "create-table" \in bs[b].calls => ~bs[b].seen.table
            /\ (bs[b].pc # "idle" /\ bs[b].seen.bucket /\ bs[b].seen.table) =>
                  /\ bs[b].calls \subseteq {"write-backend-hcl"}
                  /\ bs[b].pc # "aborted")
    /\ [][\A b \in Runs :
            (bs'[b] # bs[b] /\ bs[b].pc # "idle"
                /\ bs[b].seen.bucket /\ bs[b].seen.table)
            => [boot' EXCEPT !.hcl = "none"] = [boot EXCEPT !.hcl = "none"]]_vars

C15_Witness ==
    \E b \in Runs :
        /\ bs[b].pc = "done"
        /\ bs[b].seen.bucket /\ bs[b].seen.table
        /\ bs[b].calls = {"write-backend-hcl"}

C17_TableOptionalBucketRequired ==
    \A b \in Runs :
        /\ bs[b].warned => bs[b].pc \in {"write_backend", "done"}
        /\ bs[b].pc = "done" =>
              "write-backend-hcl" \in bs[b].calls /\ boot.hcl = BootstrapKey
        /\ (bs[b].pc \notin {"idle", "head_bucket", "create_bucket", "aborted"}) =>
              boot.bucket
        /\ bs[b].pc = "aborted" => bs[b].calls = {"create-bucket"}

C17_Witness ==
    \E b \in Runs :
        /\ bs[b].pc = "done" /\ bs[b].warned
        /\ ~boot.table /\ boot.hcl = BootstrapKey

\* C18: of two bootstrap runs started while the bucket was absent, neither
\* refused by the platform for lack of privilege, none ends aborted
C18_ConcurrentBootstrap ==
    \A a, b \in Runs :
        (/\ a # b
         /\ bs[a].pc # "idle" /\ bs[b].pc # "idle"
         /\ ~bs[a].seen.bucket /\ ~bs[b].seen.bucket
         /\ bs[a].err # "AccessDenied" /\ bs[b].err # "AccessDenied")
        => bs[a].pc # "aborted" /\ bs[b].pc # "aborted"

\* C12: every step that changes an environment's StateRecord is the Persist
\* of a run on that environment that is, at that moment, the one holder of
\* the environment's Lock; also when the bootstrap could not create the lock
\* table
C12_WritesUnderLock ==
    [][\A e \in Envs :
          state'[e] # state[e] =>
              \E r \in Runs :
                  /\ run[r].env = e /\ run[r].pc = "persisting"
                  /\ run'[r] # run[r]
                  /\ lock[e] = {r}]_vars

\* no lock table, and a run holding the Lock has written the record
C12_Witness ==
    /\ ~boot.table /\ boot.bucket /\ boot.hcl = BootstrapKey
    /\ \E r \in Runs :
          /\ lock["dev"] = {r} /\ run[r].pc = "executing"
          /\ Recorded(state["dev"]) # {}

\* C19: the path of a StateRecord is the one computed from the configurer
\* and the environment name, and no path in the state bucket is used by two
\* environments, whichever configurers wrote them
C19_StateKeyInjective ==
    /\ \A x \in store : x.path = StatePath(x.cfg, x.env)
    /\ \A x, y \in store : x.env # y.env => x.path # y.path

\* all three environments initialised, by all three configurers
C19_Witness ==
    /\ {x.env : x \in store} = AllEnvs
    /\ {x.cfg : x \in store} = Configurers
    /\ \E x, y \in store : x.env # y.env /\ x.cfg = "bootstrap" /\ y.cfg = "bootstrap"

\* names of the resources environment e has in the account
NamesOf(e) == {ResourceName(e, n) : n \in cloud[e]}

\* C20: the names derived with name_prefix differ between any two
\* environments for every resource; the names one environment has in the
\* account are none of another's, and the account holds exactly the names of
\* the resources the environments have: no apply or destroy of one
\* environment created, replaced or removed a name of the other
C20_NamesPerEnvironment ==
    /\ \A e, f \in Envs : \A n, k \in Universe \ MainCond :
          e # f => ResourceName(e, n) # ResourceName(f, k)
    /\ \A e, f \in Envs : e # f => NamesOf(e) \cap NamesOf(f) = {}
    /\ account = UNION {NamesOf(e) : e \in Envs}

\* both environments deployed in full, side by side
C20_Witness ==
    /\ cloud["dev"] = Universe \ MainCond
    /\ cloud["prod"] = Universe
    /\ run[1].pc = "done" /\ run[1].mode = "deploy"

\* C21: a deploy that is past its workspace step has its environment's
\* workspace in the list and active, and that step adds nothing to the list
\* when the workspace was there; a destroy is past its workspace step only
\* with the workspace in the list and active; a destroy that did not find
\* the workspace has failed, has printed the list it looked at, has emptied
\* no bucket, taken no lock and issued no action
C21_WorkspaceHandling ==
    /\ [](\A r \in Runs :
            /\ (run[r].pc \notin {"idle", "script", "verify", "creds"}
                    /\ run[r].err \notin {"NoBackend", "NoWorkspace"}) =>
                  run[r].ws = run[r].env /\ run[r].env \in workspaces
            /\ run[r].err = "NoWorkspace" =>
                  /\ run[r].mode = "destroy" /\ run[r].pc = "failed"
                  /\ run[r].ws = "default"
                  /\ run[r].env \notin run[r].listed
                  /\ run[r].listed \subseteq workspaces \cup {"default"}
                  /\ run[r].emptied = {} /\ run[r].issued = <<>>
                  /\ r \notin lock[run[r].env])
    /\ [][/\ workspaces \subseteq workspaces'
          /\ \A r \in Runs :
                (run[r].pc = "script" /\ run'[r].pc # "script") =>
                    /\ run[r].env \in workspaces => workspaces' = workspaces
                    /\ workspaces' \subseteq workspaces \cup {run[r].env}
                    /\ run'[r].err = "NoWorkspace" =>
                          /\ run'[r].listed = workspaces \cup {"default"}
                          /\ UNCHANGED <<chat, state, cloud, objects, lock, account>>]_vars

\* with dev deployed, a destroy of prod has failed on the missing workspace
C21_Witness ==
    /\ cloud["dev"] # {}
    /\ \E r \in Runs :
          /\ run[r].mode = "destroy" /\ run[r].env = "prod"
          /\ run[r].err = "NoWorkspace" /\ run[r].listed = {"default", "dev"}

\* the actions of run r that the provider completed
Completed(r) ==
    IF run[r].err = "ProviderActionError"
    THEN SubSeq(run[r].issued, 1, Len(run[r].issued) - 1)
    ELSE run[r].issued

\* the record a run alone leaves: the record it found, changed by the
\* actions it completed
AloneRecord(r) ==
    [n \in Universe |->
        IF \E i \in 1..Len(Completed(r)) : Completed(r)[i].node = n
        THEN LET i == CHOOSE j \in 1..Len(Completed(r)) : Completed(r)[j].node = n
             IN  IF Completed(r)[i].kind = "delete" THEN Absent
                 ELSE Desired(n, Overlay(run[r].env))
        ELSE run[r].prior[n]]

\* C22: a step of a run on one environment leaves the StateRecord, the Lock,
\* the resources and the objects of every other environment as they were;
\* the record a run plans from is that of its own environment; a run fails
\* with LockConflictError only when a run on its own environment holds the
\* Lock; and when terraform returns, the environment's record is the record
\* the run found changed by the actions it completed, whatever a run on the
\* other environment did meanwhile
C22_EnvironmentsIndependent ==
    /\ [](\A r \in Runs :
            run[r].pc = "unlocking" => state[run[r].env] = AloneRecord(r))
    /\ [][\A r \in Runs :
            run'[r] # run[r] =>
              /\ \A f \in Envs \ {run'[r].env} :
                    /\ state'[f] = state[f] /\ lock'[f] = lock[f]
                    /\ cloud'[f] = cloud[f] /\ objects'[f] = objects[f]
              /\ (run[r].pc = "diffing" /\ run'[r].pc = "executing") =>
                    /\ run'[r].prior = state[run[r].env]
                    /\ run'[r].plan = Plan(run[r].mode, decl, Overlay(run[r].env),
                                           run[r].nodes, state[run[r].env])
              /\ (run'[r].err = "LockConflictError" /\ run[r].err = "none") =>
                    \E q \in Runs \ {r} :
                        q \in lock[run[r].env] /\ run[q].env = run[r].env]_vars

\* a destroy of dev and a deploy of prod hold their Locks side by side, the
\* deploy has returned and the destroy has deleted its first resource
C22_Witness ==
    \E r, q \in Runs :
        /\ run[r].env = "dev" /\ run[q].env = "prod"
        /\ run[r].mode = "destroy" /\ run[r].pc = "persisting"
        /\ lock["dev"] = {r} /\ lock["prod"] = {q}
        /\ run[q].mode = "deploy" /\ run[q].pc = "unlocking" /\ run[q].err = "none"
        /\ Len(run[q].issued) >= 2

\* an apply run that took the toggle as true and found the record a
\* successful apply with the toggle false leaves
FlippedOn(r) ==
    /\ run[r].mode = "deploy"
    /\ run[r].pc \in {"executing", "acting", "persisting", "unlocking"}
    /\ Overlay(run[r].env)
    /\ run[r].prior = DesiredRecord(decl, FALSE, Present(decl, FALSE))

\* every action of the run's plan, issued or still to come
WholePlan(r) == Plan(run[r].mode, decl, Overlay(run[r].env), run[r].nodes, run[r].prior)

StepsOf(r, kind) ==
    {WholePlan(r)[i].node : i \in {j \in 1..Len(WholePlan(r)) : WholePlan(r)[j].kind = kind}}

\* with the toggle false no conditional node is in the graph and no node of
\* the graph names one
ToggleOffGraph ==
    /\ Present(decl, FALSE) \cap decl.cond = {}
    /\ \A n \in Present(decl, FALSE) : Producers(decl, FALSE, n) \cap decl.cond = {}
    /\ \A r \in Runs :
          (run[r].pc \in {"locking", "diffing", "executing", "acting", "persisting",
                          "unlocking"} /\ ~Overlay(run[r].env)) =>
              run[r].nodes \cap decl.cond = {}

\* C23 as claimed: with the toggle false the conditional nodes are out of the
\* graph and unreferenced; the apply with the toggle true that follows a
\* successful apply with the toggle false creates the conditional nodes and
\* has no action for any other node
C23_ToggleFlipOnlyCreates ==
    /\ ToggleOffGraph
    /\ \A r \in Runs :
          FlippedOn(r) =>
              /\ StepsOf(r, "create") = decl.cond
              /\ StepsOf(r, "update") = {}
              /\ StepsOf(r, "delete") = {}

\* C23 amended: as claimed, except that the run also updates the nodes whose
\* configuration names the toggle, the function and the distribution, and
\* only those; the buckets get no action, nothing is deleted, and a
\* successful run leaves every node recorded as configured with the toggle
\* true
C23_ToggleFlip ==
    /\ ToggleOffGraph
    /\ \A r \in Runs :
          FlippedOn(r) =>
              /\ StepsOf(r, "create") = decl.cond
              /\ StepsOf(r, "update") = {"api", "cloudfront"}
              /\ StepsOf(r, "delete") = {}
              /\ \A i \in 1..Len(run[r].issued) : run[r].issued[i].node \notin Buckets
              /\ (run[r].pc = "unlocking" /\ run[r].err = "none") =>
                    state[run[r].env] = DesiredRecord(decl, TRUE, Names(decl))

\* dev was applied with use_custom_domain = false, terraform.tfvars was
\* edited, and the apply that followed has succeeded
C23_Witness ==
    \E r \in Runs :
        /\ FlippedOn(r) /\ run[r].env = "dev"
        /\ run[r].pc = "unlocking" /\ run[r].err = "none"
        /\ Len(run[r].issued) = Cardinality(decl.cond) + Cardinality({"api", "cloudfront"})

\* C24: an apply run without the package does not get to the function's
\* action (it issues nothing); a destroy run never fails for want of the
\* package: past the bucket emptying it has one, and when terraform destroy
\* has returned without a provider error no node is recorded any more
C24_ArtifactHardForApplyOnly ==
    \A r \in Runs :
        /\ (run[r].mode = "deploy" /\ ~run[r].zip) =>
              run[r].issued = <<>> /\ run[r].cur = NoStep /\ ~Holding(r)
        /\ run[r].mode = "destroy" =>
              /\ run[r].err # "MissingArtifact"
              /\ run[r].pc \in {"build", "locking", "diffing", "executing", "acting",
                                 "persisting", "unlocking"} => run[r].zip
              /\ (run[r].pc = "unlocking" /\ run[r].err = "none") =>
                    Recorded(state[run[r].env]) = {}

(***************************************************************************)
(* Exit status of the scripts and workflow steps                           *)
(***************************************************************************)
Ended(r) == run[r].pc \in {"done", "failed"}

\* The status the invocation returns. A script that ran to its last command
\* returns 0. destroy.yml "Verify confirmation" and the workspace check of
\* destroy.sh say exit 1; every other failure is a command that failed under
\* set -e, whose status the script returns: terraform and the aws cli
\* return 1 for an error, a held lock included.
ExitCode(r) ==
    IF run[r].pc = "done" THEN 0
    ELSE IF run[r].err \in {"ConfirmationMismatchError", "NoWorkspace"} THEN 1
    ELSE 1

Branches == {"main", "master", "feature"}

\* deploy.yml, on.push.branches
PushBranches == {"main"}

\* faulty variant: an empty input selects prod
InputOrProd(input) == IF input = "" THEN "prod" ELSE input

\* deploy.yml: ${{ github.event.inputs.environment || 'dev' }}
InputOrDefault(input) == IF input = "" THEN "dev" ELSE input

\* a job of deploy.yml starts: it runs scripts/deploy.sh with the input
\* environment, or dev when the event carries no input
DeployJob(r, tr, br, input) ==
    /\ run[r].pc = "idle"
    /\ \A q \in Runs : q < r => run[q].pc # "idle"
    /\ run' = [run EXCEPT ![r] =
                 [IdleRun EXCEPT !.env = InputOrDefault(input), !.mode = "deploy",
                                 !.trigger = tr, !.branch = br, !.pc = "creds"]]
    /\ UNCHANGED <<chat, boot, bs, store, account, decl, tfvars, workspaces, lock, state, cloud, objects, hist>>

\* a push: deploy.yml runs for the branches it lists; a push event has no
\* inputs
PushDeploy(r, br) ==
    /\ br \in PushBranches
    /\ DeployJob(r, "push", br, "")

\* deploy.yml workflow_dispatch: the environment is a required choice
DispatchDeploy(r, e) == DeployJob(r, "pipeline", "", e)

\* destroy.yml has workflow_dispatch only
DispatchDestroyAny(r) ==
    \E e \in Envs, c \in ConfirmValues : Start(r, e, "destroy", "pipeline", c)

\* the pipeline at work on both environments, two jobs at a time
NextPipeline ==
    \/ \E r \in Pair, br \in Branches : PushDeploy(r, br)
    \/ \E r \in Pair, e \in Envs : DispatchDeploy(r, e)
    \/ \E r \in Pair : DispatchDestroyAny(r)
    \/ \E r \in Pair : RunStep(r)

SpecPipeline == Init /\ [][NextPipeline]_vars

Automatic(r) == run[r].pc # "idle" /\ run[r].trigger = "push"

PastVerify(r) == run[r].pc \notin {"idle", "verify", "failed"} \/ run[r].creds

C27_EnvironmentDetection ==
    \A r \in Runs :
        Automatic(r) =>
            run[r].env = IF run[r].branch \in {"main", "master"} THEN "prod" ELSE "dev"

(***************************************************************************)
(* Runs whose provider actions may take their time                         *)
(***************************************************************************)
\* what one invocation does once started, the graph build and the diff
\* apart
ScriptStep(r) ==
    \/ DeployWorkspace(r)
    \/ DestroyWorkspace(r)
    \/ \E b \in Buckets : EmptyBucket(r, b)
    \/ AcquireLock(r)
    \/ LockConflict(r)
    \/ StartAction(r)
    \/ ProviderPending(r)
    \/ ProviderTimeout(r)
    \/ ProviderSuccess(r)
    \/ ProviderFailure(r)
    \/ Persist(r)
    \/ Unlock(r)
    \/ SyncFrontend(r)
    \/ Exit(r)

\* ./scripts/deploy.sh dev and ./scripts/destroy.sh dev, two at a time
NextWait ==
    \/ \E r \in Pair, m \in {"deploy", "destroy"} : Start(r, "dev", m, "local", "")
    \/ \E r \in Pair : ScriptStep(r)
    \/ \E r \in Pair : TerraformBuild(r)
    \/ \E r \in Pair : Diff(r)

\* An invocation is a process of its own and keeps running until it has
\* returned: weak fairness of its steps. TerraformBuild(r) and Diff(r) are
\* enabled exactly at "build" and "diffing" and always change the position,
\* so their weak fairness is written out. Nothing is assumed about the
\* provider: it may leave every poll unanswered.
KeepsRunning(r) ==
    /\ WF_vars(ScriptStep(r))
    /\ []<>(run[r].pc # "build") \/ []<><<TerraformBuild(r)>>_vars
    /\ []<>(run[r].pc # "diffing") \/ []<><<Diff(r)>>_vars

SpecWait == Init /\ [][NextWait]_vars /\ \A r \in Pair : KeepsRunning(r)

Phases == {"locking", "diffing", "executing", "acting", "persisting", "unlocking"}

\* the command has returned to the script: Failed, or Succeeded (the script
\* goes on to the frontend sync, or is done)
Terminal(r) == run[r].pc \in {"sync", "done", "failed"}

\* the phases that may follow a phase; "acting" is Executing with a
\* provider action in flight
Following(p) ==
    CASE p = "locking"    -> {"diffing", "failed"}
      [] p = "diffing"    -> {"executing"}
      [] p = "executing"  -> {"acting", "unlocking"}
      [] p = "acting"     -> {"acting", "persisting", "unlocking"}
      [] p = "persisting" -> {"executing"}
      [] p = "unlocking"  -> {"sync", "done", "failed"}

\* C28: a run goes through Locking, Diffing, Executing, Persisting (once per
\* node) and Unlocking in that order; it leaves Unlocking Failed if it met an
\* error and Succeeded if not; a provider action is polled MaxPolls times at
\* most and then ends the run with TimeoutError, the way a failed action does;
\* every run that has entered a phase gets to its terminal state, and none
\* stays in Executing
C28_PhasesAndTermination ==
    /\ [][\A r \in Runs :
             (run[r].pc \in Phases /\ run'[r].pc # run[r].pc) =>
                 /\ run'[r].pc \in Following(run[r].pc)
                 /\ run[r].pc = "unlocking" =>
                       (run'[r].pc = "failed" <=> run[r].err # "none")
                 /\ run[r].pc = "locking" =>
                       (run'[r].pc = "failed" <=> run'[r].err = "LockConflictError")]_vars
    /\ [](\A r \in Runs :
             /\ run[r].polls <= MaxPolls
             /\ run[r].polls > 0 => run[r].pc = "acting"
             /\ run[r].err = "TimeoutError" =>
                   run[r].pc \in {"unlocking", "failed"} /\ run[r].cur = NoStep)
    /\ \A r \in Pair : (run[r].pc \in Phases) ~> Terminal(r)
    /\ \A r \in Pair : (run[r].pc \in {"executing", "acting"}) ~> (run[r].pc = "unlocking")

\* a run has ended Failed on a timeout, the lock is free again and the
\* record holds what the run had created before
C28_Witness ==
    \E r \in Runs :
        /\ run[r].pc = "failed" /\ run[r].err = "TimeoutError"
        /\ run[r].mode = "deploy"
        /\ lock["dev"] = {}
        /\ Recorded(state["dev"]) # {}
        /\ Recorded(state["dev"]) # Present(decl, Overlay("dev"))

(***************************************************************************)
(* Executor that issues the actions of one dependency level together       *)
(***************************************************************************)
Max(X) == CHOOSE x \in X : \A y \in X : y <= x

\* faulty variant: every node is taken to be of the first level
RECURSIVE LevelFlat(_, _, _, _)
LevelFlat(d, t, S, n) == 1

\* dependency level of a node of S: one more than the highest level among
\* the nodes of S it depends on, directly or through nodes outside S
RECURSIVE Level(_, _, _, _)
Level(d, t, S, n) ==
    LET P == Ancestors(d, t, n) \cap S
    IN  IF P = {} THEN 1 ELSE 1 + Max({Level(d, t, S, p) : p \in P})

\* the same from the consumers' end, for removal
RECURSIVE RevLevel(_, _, _, _)
RevLevel(d, t, S, n) ==
    LET C == {m \in S : n \in Ancestors(d, t, m)}
    IN  IF C = {} THEN 1 ELSE 1 + Max({RevLevel(d, t, S, c) : c \in C})

\* the level at which step i of the plan is issued: creates and updates by
\* the level of their node in the graph, removals after them, consumers
\* first
Rank(r, i) ==
    LET step == run[r].plan[i]
        t    == Overlay(run[r].env)
        rec  == Recorded(run[r].prior)
    IN  IF step.kind # "delete" THEN Level(decl, t, run[r].nodes, step.node)
        ELSE IF run[r].mode = "deploy"
        THEN Len(decl.order) + RevLevel(decl, TRUE, rec \ run[r].nodes, step.node)
        ELSE RevLevel(decl, t, rec, step.node)

Steps(r) == 1..Len(run[r].plan)

Started(r) == run[r].flight \cup run[r].acted \cup run[r].settled

\* Executing: a step is issued once every step of a lower level has
\* completed and has had its record written; nothing is issued after an
\* error
StartNode(r, i) ==
    /\ run[r].pc = "executing"
    /\ run[r].err = "none"
    /\ i \in Steps(r) \ Started(r)
    /\ \A j \in Steps(r) : Rank(r, j) < Rank(r, i) => j \in run[r].settled
    /\ run' = [run EXCEPT ![r] =
                 [@ EXCEPT !.flight = @ \cup {i},
                           !.issued = Append(@, run[r].plan[i])]]
    /\ UNCHANGED <<chat, boot, bs, store, account, decl, tfvars, workspaces, lock, state, cloud, objects, hist>>

\* the provider adapter completes one of the actions in flight
NodeSuccess(r, i) ==
    /\ run[r].pc = "executing"
    /\ i \in run[r].flight
    /\ ~BucketNotEmpty(run[r].env, run[r].plan[i])
    /\ LET e == run[r].env
           n == run[r].plan[i].node
           del == run[r].plan[i].kind = "delete"
       IN  /\ cloud' = [cloud EXCEPT ![e] = IF del THEN @ \ {n} ELSE @ \cup {n}]
           /\ account' = IF del THEN account \ {ResourceName(e, n)}
                         ELSE account \cup {ResourceName(e, n)}
    /\ run' = [run EXCEPT ![r] =
                 [@ EXCEPT !.flight = @ \ {i}, !.acted = @ \cup {i}]]
    /\ UNCHANGED <<chat, boot, bs, store, decl, tfvars, workspaces, lock, state, objects, hist>>

\* the provider adapter reports an error for one of them: the first error
\* is kept, the other actions in flight run to their end
NodeFailure(r, i) ==
    /\ run[r].pc = "executing"
    /\ i \in run[r].flight
    /\ run' = [run EXCEPT ![r] =
                 [@ EXCEPT !.flight = @ \ {i},
                           !.err = IF @ = "none" THEN "ProviderActionError" ELSE @]]
    /\ UNCHANGED <<chat, boot, bs, store, account, decl, tfvars, workspaces, lock, state, cloud, objects, hist>>

\* Persisting: the record of a completed action is written
CommitNode(r, i) ==
    /\ run[r].pc = "executing"
    /\ i \in run[r].acted
    /\ LET e == run[r].env
           n == run[r].plan[i].node
       IN  /\ state' = [state EXCEPT ![e][n] =
                          IF run[r].plan[i].kind = "delete" THEN Absent
                          ELSE Desired(n, Overlay(e))]
           /\ hist' = [hist EXCEPT ![e] = "live"]
    /\ run' = [run EXCEPT ![r] =
                 [@ EXCEPT !.acted = @ \ {i}, !.settled = @ \cup {i}]]
    /\ UNCHANGED <<chat, boot, bs, store, account, decl, tfvars, workspaces, lock, cloud, objects>>

\* nothing is in flight or unwritten and the plan is through, or an error
\* has halted it
EndLevels(r) ==
    /\ run[r].pc = "executing"
    /\ run[r].flight = {} /\ run[r].acted = {}
    /\ run[r].err # "none" \/ run[r].settled = Steps(r)
    /\ run' = [run EXCEPT ![r] = [@ EXCEPT !.pc = "unlocking"]]
    /\ UNCHANGED <<chat, boot, bs, store, account, decl, tfvars, workspaces, lock, state, cloud, objects, hist>>

\* one operator on prod, prod.tfvars edited between runs
NextLevels ==
    \/ EditTfvars
    \/ \E m \in {"deploy", "destroy"} : Start(1, "prod", m, "local", "")
    \/ DeployWorkspace(1)
    \/ DestroyWorkspace(1)
    \/ \E b \in Buckets : EmptyBucket(1, b)
    \/ TerraformBuild(1)
    \/ AcquireLock(1)
    \/ Diff(1)
    \/ \E i \in 1..Len(MainOrder) : StartNode(1, i)
    \/ \E i \in 1..Len(MainOrder) : NodeSuccess(1, i)
    \/ \E i \in 1..Len(MainOrder) : NodeFailure(1, i)
    \/ \E i \in 1..Len(MainOrder) : CommitNode(1, i)
    \/ EndLevels(1)
    \/ Unlock(1)
    \/ SyncFrontend(1)
    \/ Exit(1)

SpecLevels == Init /\ [][NextLevels]_vars

\* the steps of the plan for node p have completed and are in the record
Committed(r, p) ==
    \A j \in Steps(r) : run[r].plan[j].node = p => j \in run[r].settled

\* the toggle under which the edges of step i are read: the overlay's, or,
\* for a node an apply removes because it is no longer configured, the one
\* under which it was configured
EdgesOf(r, i) ==
    IF run[r].plan[i].kind = "delete" /\ run[r].mode = "deploy"
    THEN TRUE ELSE Overlay(run[r].env)

\* the node of step i depends on the node of step j
DependsOn(r, i, j) ==
    run[r].plan[j].node \in Ancestors(decl, EdgesOf(r, i), run[r].plan[i].node)

\* C29: a create or update that has been issued has every producer of its
\* node recorded, with the producer's own action of this run completed and
\* written; two actions are in flight together only if neither node depends
\* on the other, directly or through other nodes
C29_LevelConcurrency ==
    \A r \in Runs :
        run[r].pc = "executing" =>
            /\ \A i \in Started(r) :
                  run[r].plan[i].kind # "delete" =>
                      \A p \in Producers(decl, Overlay(run[r].env), run[r].plan[i].node) :
                          /\ Committed(r, p)
                          /\ state[run[r].env][p] = Desired(p, Overlay(run[r].env))
                          /\ p \in cloud[run[r].env]
            /\ \A i, j \in run[r].flight :
                  i # j => ~DependsOn(r, i, j) /\ ~DependsOn(r, j, i)

\* the function and the DNS record, both consumers of the distribution, are
\* in flight together after the distribution's record was written
C29_Witness ==
    \E r \in Runs :
        /\ run[r].pc = "executing"
        /\ {run[r].plan[i].node : i \in run[r].flight} = {"api", "alias_root"}
        /\ \A i \in run[r].flight : run[r].plan[i].kind = "create"
        /\ state[run[r].env]["cloudfront"] # Absent

(***************************************************************************)
(* Runs that may be cancelled                                              *)
(***************************************************************************)
\* a cancellation is requested (interrupt of the command, cancel of the
\* workflow run) while the command is at work
Cancel(r) ==
    /\ run[r].pc \in Phases \ {"unlocking"}
    /\ ~run[r].cancel
    /\ run' = [run EXCEPT ![r] = [@ EXCEPT !.cancel = TRUE]]
    /\ UNCHANGED <<chat, boot, bs, store, account, decl, tfvars, workspaces, lock, state, cloud, objects, hist>>

\* faulty variant: the request stops the run wherever it is
StopWhenCancelledAtOnce(r) ==
    /\ run[r].pc \in {"executing", "acting", "persisting"}
    /\ run[r].cancel
    /\ run' = [run EXCEPT ![r] =
                 [@ EXCEPT !.pc = "unlocking", !.err = "Cancelled", !.cur = NoStep]]
    /\ UNCHANGED <<chat, boot, bs, store, account, decl, tfvars, workspaces, lock, state, cloud, objects, hist>>

\* the request is looked at between node actions: the run stops there and
\* goes on to Unlocking
StopWhenCancelled(r) ==
    /\ run[r].pc = "executing"
    /\ run[r].cancel
    /\ run' = [run EXCEPT ![r] =
                 [@ EXCEPT !.pc = "unlocking", !.err = "Cancelled", !.cur = NoStep]]
    /\ UNCHANGED <<chat, boot, bs, store, account, decl, tfvars, workspaces, lock, state, cloud, objects, hist>>

\* ./scripts/deploy.sh dev and ./scripts/destroy.sh dev, interrupted at will
NextCancel ==
    \E r \in Pair :
        \/ \E m \in {"deploy", "destroy"} : Start(r, "dev", m, "local", "")
        \/ DeployWorkspace(r)
        \/ DestroyWorkspace(r)
        \/ \E b \in Buckets : EmptyBucket(r, b)
        \/ TerraformBuild(r)
        \/ AcquireLock(r)
        \/ LockConflict(r)
        \/ Diff(r)
        \/ StartAction(r)
        \/ ProviderSuccess(r)
        \/ ProviderFailure(r)
        \/ Persist(r)
        \/ Cancel(r)
        \/ StopWhenCancelled(r)
        \/ Unlock(r)
        \/ SyncFrontend(r)
        \/ Exit(r)

SpecCancel == Init /\ [][NextCancel]_vars

\* run r has ended on a cancellation
EndedCancelled(r) == run[r].pc = "failed" /\ run[r].err = "Cancelled"

\* C30: a cancellation stops a run only where no action is in flight and
\* none is waiting for its record; the action in flight when the request
\* came is completed and its record written, or it fails, before the run
\* stops; when a cancelled run has ended it no longer holds the Lock, and,
\* unless another run is at work on the environment, every resource that
\* exists is recorded
C30_CancelBetweenActions ==
    /\ [][\A r \in Runs :
             /\ (run'[r].err = "Cancelled" /\ run[r].err # "Cancelled") =>
                   /\ run[r].pc = "executing" /\ run[r].cur = NoStep
                   /\ cloud[run[r].env] = Recorded(state[run[r].env])
             /\ (run[r].cancel /\ run[r].pc = "acting" /\ run'[r].pc # "acting") =>
                   run'[r].pc = "persisting" \/ run'[r].err = "ProviderActionError"
             /\ (run[r].cancel /\ run[r].pc = "persisting" /\ run'[r].pc # "persisting") =>
                   /\ run'[r].pc = "executing"
                   /\ cloud'[run[r].env] = Recorded(state'[run[r].env])
             /\ (run[r].cancel /\ run'[r].pc # "idle") =>
                   Len(run'[r].issued) <= Len(run[r].issued)]_vars
    /\ [](\A r \in Runs :
             EndedCancelled(r) =>
                 /\ r \notin lock[run[r].env]
                 /\ lock[run[r].env] = {} =>
                       cloud[run[r].env] = Recorded(state[run[r].env]))

\* a cancelled deploy has ended after two of its actions: their resources
\* exist and are recorded, the rest was not started, the lock is free
C30_Witness ==
    \E r \in Runs :
        /\ EndedCancelled(r) /\ run[r].mode = "deploy"
        /\ lock[run[r].env] = {}
        /\ Cardinality(cloud[run[r].env]) = 2
        /\ cloud[run[r].env] = Recorded(state[run[r].env])

(***************************************************************************)
(* Two operators on dev, terraform.tfvars edited between runs              *)
(***************************************************************************)
NextRecord ==
    \/ EditTfvars
    \/ \E r \in Pair :
          \/ \E m \in {"deploy", "destroy"} : Start(r, "dev", m, "local", "")
          \/ DeployWorkspace(r)
          \/ DestroyWorkspace(r)
          \/ \E b \in Buckets : EmptyBucket(r, b)
          \/ TerraformBuild(r)
          \/ AcquireLock(r)
          \/ LockConflict(r)
          \/ Diff(r)
          \/ StartAction(r)
          \/ ProviderSuccess(r)
          \/ ProviderFailure(r)
          \/ Persist(r)
          \/ Unlock(r)
          \/ SyncFrontend(r)
          \/ Exit(r)

SpecRecord == Init /\ [][NextRecord]_vars

IssuedNodes(r) == {run[r].issued[i].node : i \in 1..Len(run[r].issued)}

\* C31: no step removes a workspace or the state object of an environment;
\* an instance leaves the record only in the Persist of the lock holder's
\* delete of that node, once the resource is gone; the record becomes empty
\* only in a destroy run without error that has deleted every instance it
\* found recorded, and is marked as destroyed only when that run unlocks;
\* while a run acts, whatever it has destroyed is out of the record
C31_RecordKept ==
    /\ [][/\ workspaces \subseteq workspaces'
          /\ store \subseteq store'
          /\ \A e \in Envs :
                /\ \A n \in Universe :
                      (state[e][n] # Absent /\ state'[e][n] = Absent) =>
                          \E r \in Runs :
                              /\ run[r].env = e /\ run[r].pc = "persisting"
                              /\ run[r].cur = [kind |-> "delete", node |-> n]
                              /\ n \notin cloud[e]
                              /\ lock[e] = {r}
                /\ (Recorded(state[e]) # {} /\ Recorded(state'[e]) = {}) =>
                      \E r \in Runs :
                          /\ run[r].env = e /\ run[r].mode = "destroy"
                          /\ run[r].err = "none"
                          /\ IssuedNodes(r) = Recorded(run[r].prior)
                          /\ \A i \in 1..Len(run[r].issued) :
                                run[r].issued[i].kind = "delete"
                /\ (hist[e] # "destroyed" /\ hist'[e] = "destroyed") =>
                      \E r \in Runs :
                          /\ run[r].env = e /\ run[r].mode = "destroy"
                          /\ run[r].pc = "unlocking" /\ run[r].err = "none"
                          /\ Recorded(state[e]) = {}]_vars
    /\ [](\A r \in Runs :
             (run[r].pc = "executing" /\ run[r].err = "none") =>
                 \A i \in 1..Len(run[r].issued) :
                     run[r].issued[i].kind = "delete" =>
                         state[run[r].env][run[r].issued[i].node] = Absent)

\* a destroy has deleted the four instances it found recorded and is about
\* to unlock: the record is empty, the workspace and the state object are
\* still there
C31_Witness ==
    \E r \in Runs :
        /\ run[r].mode = "destroy" /\ run[r].pc = "unlocking" /\ run[r].err = "none"
        /\ Cardinality(Recorded(run[r].prior)) = 4
        /\ Recorded(state[run[r].env]) = {}
        /\ run[r].env \in workspaces
        /\ \E x \in store : x.env = run[r].env

\* the run has a built graph
Built(r) == run[r].pc \in Phases /\ run[r].nodes # {}

\* C32 as claimed: in a built graph every reference resolves, and a node
\* that references a conditional node is conditional itself
C32_ConsumersConditional ==
    \A r \in Runs :
        Built(r) =>
            \A n \in run[r].nodes :
                \A p \in Producers(decl, Overlay(run[r].env), n) :
                    /\ p \in run[r].nodes
                    /\ p \in decl.cond => n \in decl.cond

\* C32 amended: the declaration builds for both values of the toggle; in a
\* built graph every reference resolves, and a node that references a
\* conditional node is conditional itself or makes the reference only while
\* the toggle is true
C32_ReferencesResolve ==
    /\ \A t \in BOOLEAN : Build(decl, t).status = "ok"
    /\ \A r \in Runs :
          Built(r) =>
              \A n \in run[r].nodes :
                  \A p \in Producers(decl, Overlay(run[r].env), n) :
                      /\ p \in run[r].nodes
                      /\ p \in decl.cond =>
                            \/ n \in decl.cond
                            \/ Overlay(run[r].env) /\ p \notin Producers(decl, FALSE, n)

\* a graph built with the toggle true: the distribution, which is not
\* conditional, names the certificate, which is
C32_Witness ==
    \E r \in Runs :
        /\ Built(r) /\ Overlay(run[r].env)
        /\ "site" \in Producers(decl, TRUE, "cloudfront") \cap run[r].nodes
        /\ "cloudfront" \in run[r].nodes \ decl.cond

\* C33: once the bootstrap has written backend.hcl without a lock table, a
\* deploy or destroy run is never ended by the missing table: a run stopped
\* at the lock is stopped by another run holding it
C33_DegradedLocking ==
    \A r \in Runs :
        (/\ boot.hcl # "none" /\ ~boot.table
         /\ run[r].pc = "failed")
        => run[r].err # "LockTableMissing"

\* the run has computed its plan and holds the lock
Planned(r) ==
    run[r].pc \in {"executing", "acting", "persisting", "unlocking"}
    /\ run[r].nodes # {}

\* position of a node in the declaration
DeclIndex(n) == CHOOSE i \in 1..Len(decl.order) : decl.order[i] = n

\* nodes acted on before the k-th action of the run
Before(r, k) == {run[r].issued[j].node : j \in 1..(k - 1)}

HardeningFails(b) ==
    /\ bs[b].pc \in {"put_versioning", "put_encryption", "put_public_block"}
    /\ bs' = [bs EXCEPT ![b] = [@ EXCEPT !.err = "HardeningFailed", !.pc = "aborted"]]
    /\ UNCHANGED <<chat, boot, store, account, decl, tfvars, workspaces, lock, state, cloud,
                   objects, hist, run>>

NextHarden ==
    \E b \in Runs :
        \/ BootstrapStep(b)
        \/ HardeningFails(b)

SpecHarden == InitBoot /\ [][NextHarden]_vars

\* C35: when a bootstrap run has reported success and no other bootstrap
\* run is under way, the state bucket exists with versioning, encryption
\* and the public-access block applied
C35_SuccessMeansHardened ==
    \A b \in Runs :
        (/\ bs[b].pc = "done"
         /\ \A q \in Runs \ {b} : bs[q].pc \in {"idle", "aborted", "done"})
        => /\ boot.bucket
           /\ boot.versioning /\ boot.encryption /\ boot.publicBlock

\* C36: in a destroy run, the step that issues the deletion of a bucket
\* finds that bucket without objects
C36_BucketEmptyAtDeletion ==
    [][\A r \in Runs :
          (/\ run[r].mode = "destroy"
           /\ run[r].pc = "executing" /\ run'[r].pc = "acting"
           /\ run'[r].cur.kind = "delete" /\ run'[r].cur.node \in Buckets)
          => run'[r].cur.node \notin objects[run[r].env]]_vars

\* the run is applying a create or update of the function
ApplyingFunction(r) ==
    /\ run[r].mode = "deploy"
    /\ run[r].pc \in {"acting", "persisting"}
    /\ run[r].cur.node = "api" /\ run[r].cur.kind \in {"create", "update"}

\* C37: an apply of the function uses the package built by that deploy
\* run, never the dummy of a destroy run nor a package found in the working
\* tree; and the plan of an apply run is the one given by the graph, the
\* overlay and the record, whatever package the working tree held
C37_PlaceholderNeverDeployed ==
    \A r \in Runs :
        /\ ApplyingFunction(r) => run[r].origin = "built"
        /\ (Planned(r) /\ run[r].mode = "deploy") =>
              IsPrefix(run[r].issued,
                       Plan("deploy", decl, Overlay(run[r].env), run[r].nodes, run[r].prior))

\* terraform apply has returned without an error and the run is about to
\* release the lock
Applied(r) ==
    run[r].mode = "deploy" /\ run[r].pc = "unlocking" /\ run[r].err = "none"

\* C38: when an apply has succeeded, the instances recorded for the
\* environment are the nodes of the graph that was built for it, each as
\* configured, and they are the resources that exist
C38_RecordEqualsGraph ==
    \A r \in Runs :
        Applied(r) =>
            LET e == run[r].env
            IN  /\ run[r].nodes = Present(decl, Overlay(e))
                /\ Recorded(state[e]) = run[r].nodes
                /\ state[e] = DesiredRecord(decl, Overlay(e), run[r].nodes)
                /\ cloud[e] = run[r].nodes

\* an apply with the toggle false has succeeded on a record that held the
\* conditional nodes of an apply with the toggle true
C38_Witness ==
    \E r \in Runs :
        /\ Applied(r) /\ ~Overlay(run[r].env)
        /\ run[r].prior = DesiredRecord(decl, TRUE, Names(decl))
        /\ decl.cond # {} /\ Recorded(state[run[r].env]) \cap decl.cond = {}

(***************************************************************************)
(* The chat component, frontend/components/twin.tsx                        *)
(***************************************************************************)
\* what the visitor may have in the input field
Texts == {"", " ", "hi", "why"}

\* uuid4 values of the backend
SessionIds == {"s1", "s2"}

\* input.trim()
Trim(s) == IF s = " " THEN "" ELSE s

\* <input disabled={isLoading}>
InputDisabled(v) == v.isLoading

\* <button disabled={!input.trim() || isLoading}>
ButtonDisabled(v) == Trim(v.input) = "" \/ v.isLoading

\* React renders: the handlers and the elements now hold the current state
Rendered(c) ==
    [c EXCEPT !.view = [input |-> c.input, isLoading |-> c.isLoading,
                        sessionId |-> c.sessionId]]

\* faulty variant: the loading flag is left as it is
FinallyNothing(c) == c

\* finally { setIsLoading(false) }
Finally(c) == [c EXCEPT !.isLoading = FALSE]

\* sendMessage up to the fetch, with the state the last render gave it; the
\* state updates of an event handler are rendered before the next event
SendMessage(c) ==
    IF Trim(c.view.input) = "" \/ c.view.isLoading THEN c
    ELSE Rendered([c EXCEPT
             !.messages = Append(@, [role |-> "user", content |-> c.view.input]),
             !.input = "",
             !.isLoading = TRUE,
             !.calls = @ \cup {[turn |-> Len(c.messages) + 1,
                                session |-> c.view.sessionId,
                                body |-> c.view.sessionId]}])

\* onChange of the input field
TypeInput(txt) ==
    /\ ~InputDisabled(chat.view)
    /\ chat' = Rendered([chat EXCEPT !.input = txt])
    /\ UNCHANGED <<decl, tfvars, workspaces, lock, state, cloud, objects, hist, run,
                   boot, bs, store, account>>

\* handleKeyPress: Enter without Shift in the input field
KeyEnter ==
    /\ ~InputDisabled(chat.view)
    /\ Len(chat.messages) < 2 * MaxTurns
    /\ chat' = SendMessage(chat)
    /\ UNCHANGED <<decl, tfvars, workspaces, lock, state, cloud, objects, hist, run,
                   boot, bs, store, account>>

\* onClick of the send button
ClickSend ==
    /\ ~ButtonDisabled(chat.view)
    /\ Len(chat.messages) < 2 * MaxTurns
    /\ chat' = SendMessage(chat)
    /\ UNCHANGED <<decl, tfvars, workspaces, lock, state, cloud, objects, hist, run,
                   boot, bs, store, account>>

\* the backend answers 200: session_id is the one sent or a new uuid4
\* (request.session_id or str(uuid.uuid4())); the component keeps it if it
\* had none when the message was sent, and appends the answer
ResponseOk(call, fresh) ==
    /\ call \in chat.calls
    /\ LET sid == IF call.body = "" THEN fresh ELSE call.body
       IN  chat' = Finally([chat EXCEPT
                      !.sessionId = IF call.session = "" THEN sid ELSE @,
                      !.messages = Append(@, [role |-> "assistant",
                                              content |-> "response"]),
                      !.calls = @ \ {call}])
    /\ UNCHANGED <<decl, tfvars, workspaces, lock, state, cloud, objects, hist, run,
                   boot, bs, store, account>>

\* fetch rejects, the status is not ok or the body is not JSON: catch
\* appends the apology
ResponseError(call) ==
    /\ call \in chat.calls
    /\ chat' = Finally([chat EXCEPT
                   !.messages = Append(@, [role |-> "assistant", content |-> "error"]),
                   !.calls = @ \ {call}])
    /\ UNCHANGED <<decl, tfvars, workspaces, lock, state, cloud, objects, hist, run,
                   boot, bs, store, account>>

\* React renders the state updates made after the await
Render ==
    /\ chat.view # Rendered(chat).view
    /\ chat' = Rendered(chat)
    /\ UNCHANGED <<decl, tfvars, workspaces, lock, state, cloud, objects, hist, run,
                   boot, bs, store, account>>

NextChat ==
    \/ \E txt \in Texts : TypeInput(txt)
    \/ KeyEnter
    \/ ClickSend
    \/ \E call \in chat.calls, fresh \in SessionIds : ResponseOk(call, fresh)
    \/ \E call \in chat.calls : ResponseError(call)
    \/ Render

SpecChat == Init /\ [][NextChat]_vars

\* C39: at most one chat request is in flight; the messages alternate
\* between the visitor and the assistant, the last visitor message being
\* without its answer exactly while its request is in flight; the loading
\* flag is set exactly while a request is in flight; a request that settles
\* adds one assistant message; the session id, once set, does not change
\* and is sent with every request
C39_ChatTurns ==
    /\ [](/\ Cardinality(chat.calls) <= 1
          /\ chat.isLoading <=> chat.calls # {}
          /\ \A i \in 1..Len(chat.messages) :
                chat.messages[i].role = IF i % 2 = 1 THEN "user" ELSE "assistant"
          /\ Len(chat.messages) % 2 = 1 <=> chat.calls # {})
    /\ [][/\ chat.sessionId # "" => chat'.sessionId = chat.sessionId
          /\ \A call \in chat'.calls \ chat.calls : call.body = chat.sessionId
          /\ \A call \in chat.calls \ chat'.calls :
                /\ Len(chat'.messages) = Len(chat.messages) + 1
                /\ chat'.messages[Len(chat'.messages)].role = "assistant"]_vars

\* the first message got the apology, the second an answer and with it the
\* session id; the third request is in flight and carries that id
C39_Witness ==
    /\ chat.sessionId # ""
    /\ Len(chat.messages) = 5
    /\ chat.messages[2].content = "error"
    /\ chat.messages[4].content = "response"
    /\ \E call \in chat.calls : call.body = chat.sessionId

====
